---- MODULE Spec2Model ----
(***************************************************************************)
(* Live Screen Translator: the change-gated capture loop                   *)
(* (core/screen_capture.py), the pipeline coordinator                      *)
(* (core/translator_app.py), the recognition gateway (ocr/ocr_engine.py)   *)
(* and the translation gateway with its glossary store                     *)
(* (translation/translation_engine.py).                                    *)
(*                                                                         *)
(* Representation of Python values:                                        *)
(*   - a str is a sequence of tokens.  A token is a word, a single blank   *)
(*     " ", or a Chinese term written in pinyin; CharWidth gives the       *)
(*     number of characters the token has in the program (len()).  The     *)
(*     phrases str.replace looks for are sequences of whole tokens.        *)
(*   - a float confidence is an integer number of hundredths (95 = 0.95).  *)
(*   - None is the string "None" (engine names, windows, hashes); a       *)
(*     thread is a number, 0 for None.                                     *)
(*   - time is kept relative: a last_capture_time is "past" once           *)
(*     frame_interval has gone by since, and "recent" before that.         *)
(***************************************************************************)
EXTENDS Integers, Sequences, FiniteSets, TLC

(***************************************************************************)
(* Bounds of the model                                                     *)
(***************************************************************************)
MaxCustomRows == 1   \* rows added to the seeded glossary
MaxUsage == 1        \* largest usage_count a row reaches
MaxBatch == 2        \* longest list given to translate_batch
MaxRegions == 2      \* most regions an engine reports for a frame
MaxCount == 2        \* largest texts_detected and texts_translated
MaxImport == 2       \* items in an imported glossary list
MaxStarts == 2       \* threads made by start_monitoring, and sessions counted

(***************************************************************************)
(* Python str operations on token sequences                                *)
(***************************************************************************)
WS == " "

\* Chinese terms, in pinyin: qidong "start" (2 characters), weizhicihui
\* "unknown vocabulary" (4 characters), sifudianji "servo motor" (4 characters).
CharWidth(tok) ==
    CASE tok = WS -> 1
      [] tok = "qidong" -> 2
      [] tok = "tingzhi" -> 2
      [] tok = "weizhicihui" -> 4
      [] tok = "sifudianji" -> 4
      [] tok = "X" -> 1
      [] tok = "OK" -> 2
      [] tok = "I/O" -> 3
      [] tok = "Input/Output" -> 12
      [] OTHER -> 5

RECURSIVE PyLen(_)
PyLen(s) == IF s = <<>> THEN 0 ELSE CharWidth(Head(s)) + PyLen(Tail(s))

RECURSIVE LStrip(_)
LStrip(s) == IF s # <<>> /\ Head(s) = WS THEN LStrip(Tail(s)) ELSE s

RECURSIVE RStrip(_)
RStrip(s) ==
    IF s # <<>> /\ s[Len(s)] = WS THEN RStrip(SubSeq(s, 1, Len(s) - 1)) ELSE s

Strip(s) == RStrip(LStrip(s))

\* str.replace(old, new): leftmost, non-overlapping occurrences.
RECURSIVE Replace(_, _, _)
Replace(s, old, new) ==
    IF Len(s) < Len(old) THEN s
    ELSE IF SubSeq(s, 1, Len(old)) = old
         THEN new \o Replace(SubSeq(s, Len(old) + 1, Len(s)), old, new)
         ELSE <<Head(s)>> \o Replace(Tail(s), old, new)

(***************************************************************************)
(* Texts the model feeds to the program                                    *)
(***************************************************************************)
TxtStart == <<"qidong">>
TxtUnknown == <<"weizhicihui">>
TxtServo == <<"sifudianji">>
TxtIO == <<"Input/Output">>
TxtEmpty == <<>>
TxtBlank == <<WS>>

(***************************************************************************)
(* IndustrialGlossary: the SQLite table glossary, a sequence of rows in    *)
(* rowid order.  UNIQUE(chinese, english).                                 *)
(***************************************************************************)
Row(c, e, cat, conf, usage) ==
    [chinese |-> c, english |-> e, category |-> cat, confidence |-> conf,
     usage_count |-> usage]

\* default_terms of _load_default_terms, in the order of the list.
DefaultTerms ==
    << <<"qidong", "Start", "automation">>, <<"tingzhi", "Stop", "automation">>,
       <<"zanting", "Pause", "automation">>, <<"fuwei", "Reset", "automation">>,
       <<"baojing", "Alarm", "automation">>, <<"guzhang", "Fault", "automation">>,
       <<"yunxing", "Run", "automation">>, <<"shoudong", "Manual", "automation">>,
       <<"zidong", "Auto", "automation">>,
       <<"chengxu", "Program", "plc">>, <<"xiazai", "Download", "plc">>,
       <<"shangchuan", "Upload", "plc">>, <<"jiankong", "Monitor", "plc">>,
       <<"tiaoshi", "Debug", "plc">>, <<"fangzhen", "Simulation", "plc">>,
       <<"sifu", "Servo", "motor">>, <<"dianji", "Motor", "motor">>,
       <<"sudu", "Speed", "motor">>, <<"weizhi", "Position", "motor">>,
       <<"niuju", "Torque", "motor">>, <<"bianmaqi", "Encoder", "motor">>,
       <<"jiemian", "Interface", "hmi">>, <<"huamian", "Screen", "hmi">>,
       <<"anniu", "Button", "hmi">>, <<"zhishideng", "Indicator", "hmi">>,
       <<"shuzhi", "Value", "hmi">>,
       <<"queding", "OK", "ui">>, <<"quxiao", "Cancel", "ui">>,
       <<"shezhi", "Settings", "ui">>, <<"peizhi", "Configuration", "ui">>,
       <<"canshu", "Parameter", "ui">>, <<"xuanxiang", "Option", "ui">>,
       <<"caidan", "Menu", "ui">>, <<"gongju", "Tools", "ui">>,
       <<"bangzhu", "Help", "ui">>, <<"guanyu", "About", "ui">> >>

HasPair(store, c, e) ==
    \E i \in 1..Len(store) : store[i].chinese = c /\ store[i].english = e

\* The for loop of _load_default_terms from default_terms[i] on: one
\* INSERT OR IGNORE per entry, confidence and usage_count at their defaults.
RECURSIVE LoadDefaultTermsFrom(_, _)
LoadDefaultTermsFrom(store, i) ==
    IF i > Len(DefaultTerms) THEN store
    ELSE IF HasPair(store, <<DefaultTerms[i][1]>>, <<DefaultTerms[i][2]>>)
    THEN LoadDefaultTermsFrom(store, i + 1)
    ELSE LoadDefaultTermsFrom(
             Append(store, Row(<<DefaultTerms[i][1]>>, <<DefaultTerms[i][2]>>,
                               DefaultTerms[i][3], 100, 0)),
             i + 1)

\* Seeding with INSERT OR REPLACE: every built-in pair gets a new row.
RECURSIVE ReplaceDefaultTermsFrom(_, _)
ReplaceDefaultTermsFrom(store, i) ==
    IF i > Len(DefaultTerms) THEN store
    ELSE IF HasPair(store, <<DefaultTerms[i][1]>>, <<DefaultTerms[i][2]>>)
    THEN ReplaceDefaultTermsFrom(
             Append(SelectSeq(store, LAMBDA r :
                        ~(r.chinese = <<DefaultTerms[i][1]>>
                          /\ r.english = <<DefaultTerms[i][2]>>)),
                    Row(<<DefaultTerms[i][1]>>, <<DefaultTerms[i][2]>>,
                        DefaultTerms[i][3], 100, 0)),
             i + 1)
    ELSE ReplaceDefaultTermsFrom(
             Append(store, Row(<<DefaultTerms[i][1]>>, <<DefaultTerms[i][2]>>,
                               DefaultTerms[i][3], 100, 0)),
             i + 1)

LoadDefaultTerms_Replace(store) == ReplaceDefaultTermsFrom(store, 1)

LoadDefaultTerms(store) == LoadDefaultTermsFrom(store, 1)

\* A plain INSERT with no conflict clause and no UNIQUE constraint.
AddTerm_Insert(store, c, e, cat, conf) ==
    Append(store, Row(c, e, cat, conf, 0))

\* INSERT OR REPLACE: the conflicting row is deleted and a new row (new rowid,
\* usage_count at its default 0) is inserted.
AddTerm(store, c, e, cat, conf) ==
    Append(SelectSeq(store, LAMBDA r : ~(r.chinese = c /\ r.english = e)),
           Row(c, e, cat, conf, 0))

Matching(store, term) == SelectSeq(store, LAMBDA r : r.chinese = term)

\* ORDER BY confidence DESC, usage_count DESC
RanksAbove(a, b) ==
    \/ a.confidence > b.confidence
    \/ a.confidence = b.confidence /\ a.usage_count > b.usage_count

Reverse(s) == [i \in 1..Len(s) |-> s[Len(s) + 1 - i]]

RECURSIVE InsertSorted(_, _)
InsertSorted(sorted, r) ==
    IF sorted = <<>> THEN <<r>>
    ELSE IF RanksAbove(r, Head(sorted)) THEN <<r>> \o sorted
         ELSE <<Head(sorted)>> \o InsertSorted(Tail(sorted), r)

RECURSIVE SortRows(_)
SortRows(rows) ==
    IF rows = <<>> THEN <<>>
    ELSE InsertSorted(SortRows(SubSeq(rows, 1, Len(rows) - 1)), rows[Len(rows)])

\* SQL leaves the order of rows with equal sort keys open: tie says whether
\* such rows come out in rowid order or in the reverse order.
TieBreaks == {"rowid", "reverse"}

LookupRows(store, term, tie) ==
    IF tie = "rowid" THEN SortRows(Matching(store, term))
    ELSE SortRows(Reverse(Matching(store, term)))

\* The rows of the term as the table holds them, with no ORDER BY.
LookupResults_Unsorted(store, term, tie) ==
    LET rows == Matching(store, term)
    IN  [i \in 1..Len(rows) |->
            <<rows[i].english, rows[i].category, rows[i].confidence>>]

\* lookup's result list: (english, category, confidence) per row.
LookupResults(store, term, tie) ==
    LET rows == LookupRows(store, term, tie)
    IN  [i \in 1..Len(rows) |->
            <<rows[i].english, rows[i].category, rows[i].confidence>>]

\* A lookup that counts the best match only.
LookupStore_BestOnly(store, term) ==
    LET best == LookupRows(store, term, "rowid")[1]
    IN  [i \in 1..Len(store) |->
            IF store[i].chinese = term /\ store[i].english = best.english
            THEN [store[i] EXCEPT !.usage_count = @ + 1]
            ELSE store[i]]

\* lookup's UPDATE: every row of the term, when the SELECT returned rows.
LookupStore(store, term) ==
    [i \in 1..Len(store) |->
        IF store[i].chinese = term
        THEN [store[i] EXCEPT !.usage_count = @ + 1]
        ELSE store[i]]

\* Whether sqlite3.connect(db_path) and the statements after it work at one
\* call: the file can be locked, unreadable or on a full disk at any call.
DbStates == {"ok", "unavailable"}

\* A lookup whose sqlite3 error reaches the caller.
Lookup_NoCatch(store, term, tie, db) ==
    IF db = "unavailable"
    THEN [results |-> <<>>, store |-> store, raised |-> TRUE]
    ELSE [results |-> LookupResults(store, term, tie),
          store |-> IF Matching(store, term) # <<>> THEN LookupStore(store, term)
                    ELSE store,
          raised |-> FALSE]

\* IndustrialGlossary.lookup: the result list, the store after the call, and
\* whether the call raised. An sqlite3 error is caught and gives [].
Lookup(store, term, tie, db) ==
    IF db = "unavailable"
    THEN [results |-> <<>>, store |-> store, raised |-> FALSE]
    ELSE [results |-> LookupResults(store, term, tie),
          store |-> IF Matching(store, term) # <<>> THEN LookupStore(store, term)
                    ELSE store,
          raised |-> FALSE]

\* IndustrialGlossary.add_term: the store after the call, and whether the
\* call raised. An sqlite3 error is caught and logged.
AddTermOn(store, c, e, cat, conf, db) ==
    IF db = "unavailable"
    THEN [store |-> store, raised |-> FALSE]
    ELSE [store |-> AddTerm(store, c, e, cat, conf), raised |-> FALSE]

\* Items of an imported JSON list: a dict with the keys it has, or a value
\* that is no dict (a string).
ItemLaunch ==
    [type |-> "dict", keys |-> {"chinese", "english"},
     chinese |-> TxtStart, english |-> <<"Launch">>]

ItemNoEnglish ==
    [type |-> "dict", keys |-> {"chinese"}, chinese |-> TxtIO, english |-> <<>>]

ItemNoChinese ==
    [type |-> "dict", keys |-> {"english"}, chinese |-> <<>>, english |-> <<"Launch">>]

ItemString == [type |-> "str", keys |-> {}, chinese |-> <<>>, english |-> <<>>]

\* item.get(key, '')
ItemGet(item, key) == IF key \in item.keys THEN item[key] ELSE <<>>

\* The for loop of load_custom_glossary from data[i] on: add_term with what
\* item.get gives for each key. On an item without get the AttributeError
\* leaves the loop for the handler around the whole import.
RECURSIVE LoadCustomGlossaryFrom(_, _, _)
LoadCustomGlossaryFrom(store, data, i) ==
    IF i > Len(data) THEN store
    ELSE IF data[i].type # "dict" THEN store
    ELSE LoadCustomGlossaryFrom(
             AddTermOn(store, ItemGet(data[i], "chinese"), ItemGet(data[i], "english"),
                       "custom", 100, "ok").store,
             data, i + 1)

\* TranslationManager.load_custom_glossary on a .json file holding data
LoadCustomGlossary(store, data) == LoadCustomGlossaryFrom(store, data, 1)

\* IndustrialGlossary.__init__ on an existing store: _initialize_db creates
\* nothing new, _load_default_terms inserts the absent built-in pairs.
\* _initialize_db has no handler: its sqlite3 error reaches the caller.
Reseed(store, db) ==
    IF db = "unavailable"
    THEN [store |-> store, raised |-> TRUE]
    ELSE [store |-> LoadDefaultTerms(store), raised |-> FALSE]

(***************************************************************************)
(* Translation backends (GoogleTranslateEngine, OpenAITranslationEngine).  *)
(* The service behind an engine is outside the program: be says what one   *)
(* call to it does: "fail" (it raises) or "render" (it returns its         *)
(* rendering of the text, which for a text it cannot translate is the text *)
(* unchanged).                                                             *)
(***************************************************************************)
BackendBehaviours == {"fail", "render"}

BackendRender(text) ==
    CASE text = TxtUnknown -> <<"Unknown">>
      [] text = TxtServo -> <<"Servo", WS, "motor">>
      [] text = TxtStart -> <<"Begin">>
      [] OTHER -> text

\* GoogleTranslateEngine.translate: 0.9 on success, (text, text, 0.0) when
\* the call raises.
GoogleTranslate(text, be) ==
    IF be = "fail" THEN [translated_text |-> text, confidence |-> 0]
    ELSE [translated_text |-> BackendRender(text), confidence |-> 90]

\* OpenAITranslationEngine.translate: 0.95 on success, (text, text, 0.0) when
\* the call raises.
OpenAITranslate(text, be) ==
    IF be = "fail" THEN [translated_text |-> text, confidence |-> 0]
    ELSE [translated_text |-> BackendRender(text), confidence |-> 95]

EngineTranslate(engine, text, be) ==
    IF engine = "google" THEN GoogleTranslate(text, be) ELSE OpenAITranslate(text, be)

(***************************************************************************)
(* TranslationManager                                                      *)
(***************************************************************************)
\* _initialize_engines: engines is the dict's keys in insertion order.
TmEngines(googleAvailable, openaiAvailable) ==
    (IF googleAvailable THEN <<"google">> ELSE <<>>)
        \o (IF openaiAvailable THEN <<"openai">> ELSE <<>>)

InSeq(x, s) == \E i \in 1..Len(s) : s[i] = x

\* A selection that ignores the configured preference.
SelectPrimary_FirstOnly(engines, preferred_engine) ==
    IF engines # <<>> THEN engines[1] ELSE "None"

\* "Set primary engine" of _initialize_engines: the name of the engine chosen.
SelectPrimary(engines, preferred_engine) ==
    IF InSeq(preferred_engine, engines) THEN preferred_engine
    ELSE IF engines # <<>> THEN engines[1]
    ELSE "None"

\* The replacements dict of _post_process_translation, in insertion order.
Replacements ==
    << << <<"Servo", WS, "motor">>, <<"Servo">> >>,
       << <<"Motor", WS, "drive">>, <<"Drive">> >>,
       << <<"Programmable", WS, "logic", WS, "controller">>, <<"PLC">> >>,
       << <<"Human", WS, "machine", WS, "interface">>, <<"HMI">> >>,
       << <<"Variable", WS, "frequency", WS, "drive">>, <<"VFD">> >>,
       << <<"Input/Output">>, <<"I/O">> >> >>

RECURSIVE ApplyReplacements(_, _)
ApplyReplacements(processed, i) ==
    IF i > Len(Replacements) THEN processed
    ELSE ApplyReplacements(
             Replace(processed, Replacements[i][1], Replacements[i][2]), i + 1)

PostProcessTranslation(translation, original) == ApplyReplacements(translation, 1)

\* One confidence whatever the glossary gave.
TranslateConfidence_Flat(glossary_matches) == 80

\* The confidence translate gives its result.
TranslateConfidence(glossary_matches) == IF glossary_matches # <<>> THEN 95 ELSE 80

\* TranslationManager.translate.  cfg_use_glossary is config translation.use_glossary,
\* use_glossary the argument of that name.
\* Gives the TranslationResult, the store after the call, whether the
\* primary engine was called and whether the call raised; db is the state of
\* the store at the lookup.
TranslateOn(store, primary_engine, cfg_use_glossary, text, use_glossary, tie, be, db) ==
    LET consult == use_glossary /\ cfg_use_glossary
        looked == Lookup(store, text, tie, db)
        glossary_results == IF consult THEN looked.results ELSE <<>>
        hit == glossary_results # <<>>
        best_match == glossary_results[1]
        glossary_matches ==
            IF hit THEN << <<text, best_match[1], best_match[2]>> >> ELSE <<>>
        \* "not enhanced_translation": None, or the empty string
        unset == ~hit \/ best_match[1] = <<>>
        use_engine == unset /\ primary_engine # "None"
        enhanced_translation ==
            IF use_engine THEN EngineTranslate(primary_engine, text, be).translated_text
            ELSE IF unset THEN text
            ELSE best_match[1]
    IN  [result |->
            [original_text |-> text,
             translated_text |-> PostProcessTranslation(enhanced_translation, text),
             confidence |-> TranslateConfidence(glossary_matches),
             glossary_matches |-> glossary_matches],
         store |-> IF consult THEN looked.store ELSE store,
         engine_called |-> use_engine,
         raised |-> consult /\ looked.raised]

\* translate with the store available.
Translate(store, primary_engine, cfg_use_glossary, text, use_glossary, tie, be) ==
    TranslateOn(store, primary_engine, cfg_use_glossary, text, use_glossary, tie,
                be, "ok")

\* One turn of translate_batch's loop: acc holds results and the store so far,
\* t is what translate gave for the text.
BatchAppend(acc, t) == [results |-> Append(acc.results, t.result), store |-> t.store]

\* TranslationManager.translate_batch from texts[i] on.
RECURSIVE TranslateBatchFrom(_, _, _, _, _, _, _)
TranslateBatchFrom(acc, primary_engine, cfg_use_glossary, texts, i, tie, be) ==
    IF i > Len(texts) THEN acc
    ELSE IF Strip(texts[i]) # <<>>
         THEN TranslateBatchFrom(
                  BatchAppend(acc, Translate(acc.store, primary_engine,
                                             cfg_use_glossary, texts[i], TRUE, tie, be)),
                  primary_engine, cfg_use_glossary, texts, i + 1, tie, be)
         ELSE TranslateBatchFrom(acc, primary_engine, cfg_use_glossary, texts,
                                 i + 1, tie, be)

\* translate_batch without its "if text.strip()" test.
RECURSIVE TranslateEveryFrom(_, _, _, _, _, _, _)
TranslateEveryFrom(acc, primary_engine, cfg_use_glossary, texts, i, tie, be) ==
    IF i > Len(texts) THEN acc
    ELSE TranslateEveryFrom(
             BatchAppend(acc, Translate(acc.store, primary_engine,
                                        cfg_use_glossary, texts[i], TRUE, tie, be)),
             primary_engine, cfg_use_glossary, texts, i + 1, tie, be)

TranslateBatch_NoSkip(store, primary_engine, cfg_use_glossary, texts, tie, be) ==
    TranslateEveryFrom([results |-> <<>>, store |-> store], primary_engine,
                       cfg_use_glossary, texts, 1, tie, be)

TranslateBatch(store, primary_engine, cfg_use_glossary, texts, tie, be) ==
    TranslateBatchFrom([results |-> <<>>, store |-> store], primary_engine,
                       cfg_use_glossary, texts, 1, tie, be)

(***************************************************************************)
(* OCRManager.  An OCRResult is [text, height, confidence]: text as        *)
(* OCRResult.__init__ stores it (stripped), height is bbox[3].  What the   *)
(* chosen engine's detect_text returns for a frame is outside the program: *)
(* raw is the list of (text, height, confidence) it reports.               *)
(***************************************************************************)
OCRResult(text, height, confidence) ==
    [text |-> Strip(text), height |-> height, confidence |-> confidence]

OcrEngines(paddleAvailable, tesseractAvailable) ==
    (IF paddleAvailable THEN <<"paddleocr">> ELSE <<>>)
        \o (IF tesseractAvailable THEN <<"tesseract">> ELSE <<>>)

\* A choice that ignores the override.
DetectEngine_PrimaryOnly(engines, primary_engine, engine_name) ==
    primary_engine

\* The engine detect_text hands the frame to; "None" when there is none.
DetectEngine(engines, primary_engine, engine_name) ==
    IF engine_name # "None" /\ engine_name # "" /\ InSeq(engine_name, engines)
    THEN engine_name
    ELSE primary_engine

\* OCRManager.detect_text
DetectText(engines, primary_engine, engine_name, raw) ==
    LET engine == DetectEngine(engines, primary_engine, engine_name)
    IN  [engine |-> engine,
         results |-> IF engine = "None" THEN <<>>
                     ELSE [i \in 1..Len(raw) |->
                              OCRResult(raw[i][1], raw[i][2], raw[i][3])]]

(***************************************************************************)
(* LiveScreenTranslator: the pipeline callbacks                            *)
(***************************************************************************)
MinTextSize == 12

\* A filter on the height alone.
KeepRegion_AnyText(result, min_text_size) ==
    result.height >= min_text_size

\* A filter that wants the height above min_text_size.
KeepRegion_Taller(result, min_text_size) ==
    result.height > min_text_size /\ PyLen(Strip(result.text)) > 1

\* The filter of _process_ocr.
KeepRegion(result, min_text_size) ==
    result.height >= min_text_size /\ PyLen(Strip(result.text)) > 1

\* _process_ocr: the filtered results and the new texts_detected.
ProcessOcr(engines, primary_engine, raw, texts_detected) ==
    LET ocr_results == DetectText(engines, primary_engine, "None", raw).results
        filtered_results ==
            SelectSeq(ocr_results, LAMBDA r : KeepRegion(r, MinTextSize))
    IN  [filtered |-> filtered_results,
         texts_detected |-> texts_detected + Len(filtered_results)]

Min(a, b) == IF a < b THEN a ELSE b

\* A test that lets a confidence of exactly 0.5 through.
WorthShowing_AtLeastHalf(translation_result) ==
    /\ translation_result.translated_text # translation_result.original_text
    /\ translation_result.confidence >= 50

\* The test of _process_translations on one translation result.
WorthShowing(translation_result) ==
    /\ translation_result.translated_text # translation_result.original_text
    /\ translation_result.confidence > 50

\* zip(ocr_results, translation_results), as pairs <<ocr, translation>>.
Zip(ocr_results, translation_results) ==
    [i \in 1..Min(Len(ocr_results), Len(translation_results)) |->
        <<ocr_results[i], translation_results[i]>>]

\* The loop of _process_translations over zip(ocr_results,
\* translation_results): valid_ocr and valid_translations.
ValidPairs(ocr_results, translation_results) ==
    LET valid == SelectSeq(Zip(ocr_results, translation_results),
                           LAMBDA p : WorthShowing(p[2]))
    IN  [valid_ocr |-> [i \in 1..Len(valid) |-> valid[i][1]],
         valid_translations |-> [i \in 1..Len(valid) |-> valid[i][2]]]

\* _process_translations for a non-empty ocr_results: the emitted lists, the
\* store after translate_batch and the new texts_translated.
ProcessTranslations(ocr_results, store, primary_engine, cfg_use_glossary, texts_translated, tie, be) ==
    LET texts_to_translate == [i \in 1..Len(ocr_results) |-> ocr_results[i].text]
        batch == TranslateBatch(store, primary_engine, cfg_use_glossary,
                                texts_to_translate, tie, be)
        valid == ValidPairs(ocr_results, batch.results)
    IN  [valid_ocr |-> valid.valid_ocr,
         valid_translations |-> valid.valid_translations,
         store |-> batch.store,
         texts_translated |-> texts_translated + Len(valid.valid_translations)]

(***************************************************************************)
(* State                                                                   *)
(***************************************************************************)
(***************************************************************************)
(* ConfigManager. A configuration value is a dict (its items: a function   *)
(* from keys to values) or a string; a key is a sequence of name parts, a  *)
(* key path a sequence of name parts and dots.                             *)
(***************************************************************************)
EmptyItems == [k \in {} |-> 0]

ConfigDict(items) == [type |-> "dict", value |-> "", items |-> items]

ConfigStr(v) == [type |-> "str", value |-> v, items |-> EmptyItems]

\* key_path.split('.') from part i on: current is the key being read, acc the
\* keys read so far.
RECURSIVE SplitFrom(_, _, _, _)
SplitFrom(key_path, i, current, acc) ==
    IF i > Len(key_path) THEN Append(acc, current)
    ELSE IF key_path[i] = "." THEN SplitFrom(key_path, i + 1, <<>>, Append(acc, current))
    ELSE SplitFrom(key_path, i + 1, Append(current, key_path[i]), acc)

Split(key_path) == SplitFrom(key_path, 1, <<>>, <<>>)

\* ConfigManager.get from keys[i] on: value[key] raises KeyError on a dict
\* without the key and TypeError on a string; both give the default.
RECURSIVE GetFrom(_, _, _, _)
GetFrom(value, keys, i, default) ==
    IF i > Len(keys) THEN value
    ELSE IF value.type = "dict" /\ keys[i] \in DOMAIN value.items
    THEN GetFrom(value.items[keys[i]], keys, i + 1, default)
    ELSE default

\* ConfigManager.get(key_path, default)
ConfigGet(cfg, key_path, default) == GetFrom(cfg, Split(key_path), 1, default)

\* config[key] = value on a dict
PutItem(items, key, value) ==
    [k \in DOMAIN items \cup {key} |-> IF k = key THEN value ELSE items[k]]

\* ConfigManager.set from keys[i] on, in the container node: a missing
\* section is created; on a container that is a string, the membership
\* test's result is indexed or assigned to, which raises TypeError.
RECURSIVE SetFrom(_, _, _, _)
SetFrom(node, keys, i, value) ==
    IF node.type # "dict" THEN [node |-> node, raised |-> TRUE]
    ELSE IF i = Len(keys)
    THEN [node |-> ConfigDict(PutItem(node.items, keys[i], value)), raised |-> FALSE]
    ELSE LET child == IF keys[i] \in DOMAIN node.items THEN node.items[keys[i]]
                      ELSE ConfigDict(EmptyItems)
             below == SetFrom(child, keys, i + 1, value)
         IN  IF below.raised THEN [node |-> node, raised |-> TRUE]
             ELSE [node |-> ConfigDict(PutItem(node.items, keys[i], below.node)),
                   raised |-> FALSE]

\* ConfigManager.set(key_path, value): the configuration after the call, and
\* whether the call raised.
ConfigSet(cfg, key_path, value) == SetFrom(cfg, Split(key_path), 1, value)

\* _get_default_config, its sections ocr and translation with two settings
\* each.
DefaultConfig ==
    ConfigDict([k \in {<<"ocr">>, <<"translation">>} |->
        IF k = <<"ocr">>
        THEN ConfigDict([j \in {<<"engine">>, <<"languages">>} |->
                 IF j = <<"engine">> THEN ConfigStr("paddleocr")
                 ELSE ConfigStr("ch,en")])
        ELSE ConfigDict([j \in {<<"primary_engine">>, <<"target_lang">>} |->
                 IF j = <<"primary_engine">> THEN ConfigStr("google")
                 ELSE ConfigStr("en")])])

\* update_settings, the loop over new_settings.items() from the i-th key on.
RECURSIVE UpdateSettingsFrom(_, _, _, _)
UpdateSettingsFrom(cfg, new_settings, keys, i) ==
    IF i > Len(keys) THEN cfg
    ELSE UpdateSettingsFrom(ConfigSet(cfg, keys[i], new_settings[keys[i]]).node,
                            new_settings, keys, i + 1)

VARIABLES
    config,         \* ConfigManager.config
    env,            \* what construction finds: which engines report available,
                    \* and the configuration (ocr.engine,
                    \* translation.primary_engine, translation.use_glossary)
    glossary,       \* IndustrialGlossary: the rows of table glossary
    tm_engines,     \* TranslationManager.engines (keys, insertion order)
    tm_primary,     \* TranslationManager.primary_engine
    ocr_engines,    \* OCRManager.engines (keys, insertion order)
    ocr_primary,    \* OCRManager.primary_engine
    last,           \* the last call made: its arguments and result
    stats,          \* LiveScreenTranslator.stats
    emitted,        \* the last translation_completed.emit(valid_ocr,
                    \* valid_translations), if any
    translation_active, \* LiveScreenTranslator.translation_active
    app,            \* LiveScreenTranslator.current_mode, .target_window and
                    \* .monitor_regions
    is_monitoring,  \* RealTimeMonitor.is_monitoring
    monitor_thread, \* RealTimeMonitor.monitor_thread: a thread, 0 for None
    mon,            \* RealTimeMonitor.target_window and .monitor_regions
    threads,        \* each thread made for _monitor_loop: where it is in the
                    \* loop, and the loop's local variables
    joining,        \* the call of stop_monitoring in progress: the thread it
                    \* joins (0: no call in progress)
    lastCap,        \* fingerprint of the last non-empty frame captured since
                    \* monitoring was last started
    is_translating, \* MainWindow.is_translating
    callers         \* the threads that call into LiveScreenTranslator (the
                    \* UI thread, the hotkey callback thread): where each is
                    \* inside start_translation, and its locals

engVars == <<config, env, tm_engines, tm_primary, ocr_engines, ocr_primary>>

uiVars == <<is_translating, callers>>

appVars == <<stats, emitted>>

monVars == <<is_monitoring, monitor_thread, mon, threads, joining, lastCap>>

sessionVars == <<translation_active, app, monVars>>

vars == <<engVars, uiVars, glossary, last, appVars, sessionVars>>

Envs ==
    [paddle : BOOLEAN, tesseract : BOOLEAN, google : BOOLEAN, openai : BOOLEAN,
     ocr_engine : {"paddleocr", "tesseract", "easyocr"},
     primary_engine : {"google", "openai", "deepl"},
     use_glossary : BOOLEAN]

NoCall == [op |-> "none"]

NoEmission == [signalled |-> FALSE, ocr |-> <<>>, translations |-> <<>>]

Tids == 1..MaxStarts

\* The threads that call start_translation: the Qt thread of the main window
\* and the thread in which the keyboard library runs a hotkey's callback.
Callers == {"ui", "hotkey"}

NotCalling == [pc |-> "idle", count |-> 0, ocr_results |-> <<>>]

NoJoin == [tid |-> 0]

\* A thread not yet made; the locals are those _monitor_loop starts with.
\* last_capture_time is "past" when frame_interval or more has gone by since
\* (as for its first value, 0) and "recent" otherwise.
Unborn ==
    [pc |-> "unborn", previous_hash |-> "None", last_capture_time |-> "past",
     image |-> "None", ocr_results |-> <<>>]

\* OCRManager.__init__, IndustrialGlossary.__init__ (on an empty database) and
\* TranslationManager.__init__ in the environment e.
Constructed(e) ==
    /\ config = DefaultConfig
    /\ env = e
    /\ glossary = LoadDefaultTerms(<<>>)
    /\ tm_engines = TmEngines(e.google, e.openai)
    /\ tm_primary = SelectPrimary(TmEngines(e.google, e.openai), e.primary_engine)
    /\ ocr_engines = OcrEngines(e.paddle, e.tesseract)
    /\ ocr_primary = SelectPrimary(OcrEngines(e.paddle, e.tesseract), e.ocr_engine)
    /\ last = NoCall
    /\ stats = [texts_detected |-> 0, texts_translated |-> 0, sessions_count |-> 0]
    /\ emitted = NoEmission
    /\ translation_active = FALSE
    /\ app = [current_mode |-> "app", target_window |-> "None",
              monitor_regions |-> <<>>]
    /\ is_monitoring = FALSE
    /\ monitor_thread = 0
    /\ mon = [target_window |-> "None", monitor_regions |-> <<>>, shared |-> FALSE]
    /\ threads = [t \in Tids |-> Unborn]
    /\ joining = NoJoin
    /\ lastCap = "None"
    /\ is_translating = FALSE
    /\ callers = [c \in Callers |-> NotCalling]

(***************************************************************************)
(* The translation gateway and its glossary                                *)
(***************************************************************************)
\* (chinese, english) pairs given to add_term: a second target for a built-in
\* term, a built-in pair again, a target holding a phrase of Replacements, and
\* an empty target.
AddPairs ==
    { <<TxtStart, <<"Launch">> >>, <<TxtStart, <<"Start">> >>,
      <<TxtServo, <<"Servo", WS, "motor">> >>, <<TxtServo, <<>> >> }
AddCategories == {"custom"}
AddConfidences == {100, 90}
TranslateTexts == {TxtStart, TxtUnknown, TxtServo, TxtIO}
BatchTexts == {TxtStart, TxtEmpty, TxtBlank, TxtUnknown}

SeqsUpTo(S, n) == UNION {[1..k -> S] : k \in 0..n}

UsageBelow(store, term, n) ==
    \A i \in 1..Len(store) : store[i].chinese = term => store[i].usage_count < n

\* IndustrialGlossary.add_term (TranslationManager.add_custom_term passes the
\* default confidence 1.0, load_custom_glossary the record's).
AddTermCall(c, e, cat, conf) ==
    /\ Len(AddTerm(glossary, c, e, cat, conf)) <= Len(DefaultTerms) + MaxCustomRows
    /\ glossary' = AddTerm(glossary, c, e, cat, conf)
    /\ last' = [op |-> "add_term", chinese |-> c, english |-> e]
    /\ UNCHANGED <<engVars, uiVars, appVars, sessionVars>>

\* TranslationManager.translate(text)
TranslateCall(text, tie, be) ==
    \E t \in {Translate(glossary, tm_primary, env.use_glossary, text, TRUE, tie, be)} :
        /\ UsageBelow(glossary, text, MaxUsage)
        /\ glossary' = t.store
        /\ last' = [op |-> "translate", text |-> text, be |-> be,
                    result |-> t.result, engine_called |-> t.engine_called]
        /\ UNCHANGED <<engVars, uiVars, appVars, sessionVars>>

\* TranslationManager.translate_batch(texts)
TranslateBatchCall(texts, tie, be) ==
    \E b \in {TranslateBatch(glossary, tm_primary, env.use_glossary, texts, tie, be)} :
        /\ \A i \in 1..Len(b.store) : b.store[i].usage_count <= MaxUsage
        /\ glossary' = b.store
        /\ last' = [op |-> "translate_batch", texts |-> texts, results |-> b.results]
        /\ UNCHANGED <<engVars, uiVars, appVars, sessionVars>>

\* Both recognition engines available; glossary use switched off only where
\* Google alone is available.
TranslationEnvs ==
    {e \in Envs : /\ e.paddle /\ e.tesseract /\ e.ocr_engine = "paddleocr"
                  /\ e.primary_engine = "google"
                  /\ (e.use_glossary \/ (e.google /\ ~e.openai))}

InitTranslation == \E e \in TranslationEnvs : Constructed(e)

AddTermStep ==
    \E p \in AddPairs, cat \in AddCategories, conf \in AddConfidences :
        AddTermCall(p[1], p[2], cat, conf)

NextTranslation ==
    \/ AddTermStep
    \/ \E text \in TranslateTexts, tie \in TieBreaks, be \in BackendBehaviours :
          TranslateCall(text, tie, be)

SpecTranslation == InitTranslation /\ [][NextTranslation]_vars

NextBatch ==
    \/ \E conf \in AddConfidences : AddTermCall(TxtStart, <<"Launch">>, "custom", conf)
    \/ \E texts \in SeqsUpTo(BatchTexts, MaxBatch), tie \in TieBreaks,
          be \in BackendBehaviours : TranslateBatchCall(texts, tie, be)

SpecBatch == InitTranslation /\ [][NextBatch]_vars

(***************************************************************************)
(* The glossary store on its own: lookup, add_term, construction on an     *)
(* existing store and translate, each with the store available or not.     *)
(***************************************************************************)
LookupTerms == {TxtStart, TxtUnknown}

\* IndustrialGlossary.lookup(term)
LookupCall(term, tie, db) ==
    \E l \in {Lookup(glossary, term, tie, db)} :
        /\ UsageBelow(glossary, term, MaxUsage + 1)
        /\ glossary' = l.store
        /\ last' = [op |-> "lookup", term |-> term, db |-> db,
                    results |-> l.results, raised |-> l.raised]
        /\ UNCHANGED <<engVars, uiVars, appVars, sessionVars>>

\* IndustrialGlossary.add_term(chinese, english, category, confidence)
AddTermOnCall(c, e, cat, conf, db) ==
    \E a \in {AddTermOn(glossary, c, e, cat, conf, db)} :
        /\ Len(a.store) <= Len(DefaultTerms) + MaxCustomRows
        /\ glossary' = a.store
        /\ last' = [op |-> "add_term", chinese |-> c, english |-> e,
                    category |-> cat, confidence |-> conf, db |-> db,
                    raised |-> a.raised]
        /\ UNCHANGED <<engVars, uiVars, appVars, sessionVars>>

\* IndustrialGlossary(db_path) constructed again on the existing store
ReseedCall(db) ==
    \E r \in {Reseed(glossary, db)} :
        /\ glossary' = r.store
        /\ last' = [op |-> "seed", db |-> db, raised |-> r.raised]
        /\ UNCHANGED <<engVars, uiVars, appVars, sessionVars>>

\* TranslationManager.translate(text)
TranslateOnCall(text, tie, be, db) ==
    \E t \in {TranslateOn(glossary, tm_primary, env.use_glossary, text, TRUE, tie,
                           be, db)} :
        /\ UsageBelow(glossary, text, MaxUsage)
        /\ glossary' = t.store
        /\ last' = [op |-> "translate", text |-> text, db |-> db,
                    result |-> t.result, raised |-> t.raised]
        /\ UNCHANGED <<engVars, uiVars, appVars, sessionVars>>

ImportItems == {ItemLaunch, ItemNoEnglish, ItemNoChinese, ItemString}

\* TranslationManager.load_custom_glossary(file_path)
LoadCustomGlossaryCall(data) ==
    \E store \in {LoadCustomGlossary(glossary, data)} :
        /\ Len(store) <= Len(DefaultTerms) + MaxCustomRows
        /\ glossary' = store
        /\ last' = [op |-> "load_custom_glossary", data |-> data]
        /\ UNCHANGED <<engVars, uiVars, appVars, sessionVars>>

\* Every engine available, the default configuration.
GlossaryEnvs == {e \in TranslationEnvs : e.google /\ e.openai /\ e.use_glossary}

InitGlossary == \E e \in GlossaryEnvs : Constructed(e)

NextGlossary ==
    \/ \E term \in LookupTerms, tie \in TieBreaks, db \in DbStates :
          LookupCall(term, tie, db)
    \/ \E e \in {<<"Launch">>, <<"Start">>}, cat \in AddCategories,
          conf \in AddConfidences, db \in DbStates :
          AddTermOnCall(TxtStart, e, cat, conf, db)
    \/ \E db \in DbStates : ReseedCall(db)
    \/ \E data \in SeqsUpTo(ImportItems, MaxImport) : LoadCustomGlossaryCall(data)
    \/ \E text \in LookupTerms, tie \in TieBreaks, db \in DbStates :
          TranslateOnCall(text, tie, "render", db)

SpecGlossary == InitGlossary /\ [][NextGlossary]_vars


(***************************************************************************)
(* The recognition gateway                                                 *)
(***************************************************************************)
\* What a recognition engine reports for a frame: (text, height, confidence).
RawStart == <<TxtStart, 12, 90>>
RawUnknown == <<TxtUnknown, 12, 90>>
RawBlank == <<TxtBlank, 12, 90>>
RawSmall == <<TxtStart, 11, 90>>

RawRegions == {RawStart, RawUnknown, RawBlank, RawSmall}

RawOutputs == SeqsUpTo(RawRegions, MaxRegions)

OverrideNames == {"None", "paddleocr", "tesseract", "easyocr"}

\* OCRManager.detect_text(image, engine_name)
DetectTextCall(engine_name, raw) ==
    /\ last' = [op |-> "detect_text", engine_name |-> engine_name, raw |-> raw,
                out |-> DetectText(ocr_engines, ocr_primary, engine_name, raw)]
    /\ UNCHANGED <<engVars, uiVars, glossary, appVars, sessionVars>>

EngineEnvs == {e \in Envs : e.use_glossary}

InitEngines == \E e \in EngineEnvs : Constructed(e)

NextEngines ==
    \/ \E engine_name \in OverrideNames, raw \in SeqsUpTo({RawStart}, MaxRegions) :
          DetectTextCall(engine_name, raw)
    \/ \E be \in BackendBehaviours : TranslateCall(TxtUnknown, "rowid", be)

SpecEngines == InitEngines /\ [][NextEngines]_vars

(***************************************************************************)
(* The pipeline coordinator on one accepted frame                          *)
(***************************************************************************)
\* _monitor_loop, lines 269-275, with the callbacks LiveScreenTranslator gives
\* it: ocr_results = _process_ocr(image), then, if ocr_results is not empty,
\* _process_translations(ocr_results).
AcceptedFrame(raw, tie, be) ==
    \E po \in {ProcessOcr(ocr_engines, ocr_primary, raw, stats.texts_detected)} :
        /\ po.texts_detected <= MaxCount
        /\ IF po.filtered # <<>>
           THEN \E pt \in {ProcessTranslations(po.filtered, glossary, tm_primary,
                               env.use_glossary, stats.texts_translated, tie, be)} :
                  /\ \A i \in 1..Len(pt.store) : pt.store[i].usage_count <= MaxUsage
                  /\ glossary' = pt.store
                  /\ stats' = [stats EXCEPT !.texts_detected = po.texts_detected,
                                            !.texts_translated = pt.texts_translated]
                  /\ emitted' = [signalled |-> TRUE, ocr |-> pt.valid_ocr,
                                 translations |-> pt.valid_translations]
                  /\ last' = [op |-> "frame", raw |-> raw]
           ELSE /\ stats' = [stats EXCEPT !.texts_detected = po.texts_detected]
                /\ last' = [op |-> "frame", raw |-> raw]
                /\ UNCHANGED <<glossary, emitted>>
        /\ UNCHANGED <<engVars, uiVars, sessionVars>>

\* A region whose text is one character once stripped.
RawOneChar == << <<"X", WS>>, 12, 90>>

FilterRegions == {RawStart, RawSmall, RawBlank, RawOneChar}

\* How preprocess_image and detect_text end inside _process_ocr.
Recognitions == {"ok", "raised"}

\* _process_ocr with its handler: an error in preprocess_image or detect_text
\* is caught, the result is [] and texts_detected is not touched.
ProcessOcrOn(engines, primary_engine, raw, texts_detected, recognition) ==
    IF recognition = "raised"
    THEN [filtered |-> <<>>, texts_detected |-> texts_detected]
    ELSE ProcessOcr(engines, primary_engine, raw, texts_detected)

\* _monitor_loop, lines 269-275, as AcceptedFrame, with the recognition's
\* outcome an input and the list handed to translation_callback recorded.
FilteredFrame(raw, recognition, be) ==
    \E po \in {ProcessOcrOn(ocr_engines, ocr_primary, raw, stats.texts_detected,
                             recognition)} :
        /\ po.texts_detected <= MaxCount
        /\ IF po.filtered # <<>>
           THEN \E pt \in {ProcessTranslations(po.filtered, glossary, tm_primary,
                               env.use_glossary, stats.texts_translated,
                               "rowid", be)} :
                  /\ \A i \in 1..Len(pt.store) : pt.store[i].usage_count <= MaxUsage
                  /\ glossary' = pt.store
                  /\ stats' = [stats EXCEPT !.texts_detected = po.texts_detected,
                                            !.texts_translated = pt.texts_translated]
                  /\ emitted' = [signalled |-> TRUE, ocr |-> pt.valid_ocr,
                                 translations |-> pt.valid_translations]
                  /\ last' = [op |-> "ocr_frame", raw |-> raw,
                              recognition |-> recognition, be |-> be,
                              translation_called |-> TRUE,
                              passed |-> po.filtered]
           ELSE /\ stats' = [stats EXCEPT !.texts_detected = po.texts_detected]
                /\ last' = [op |-> "ocr_frame", raw |-> raw,
                            recognition |-> recognition, be |-> be,
                            translation_called |-> FALSE,
                            passed |-> <<>>]
                /\ UNCHANGED <<glossary, emitted>>
        /\ UNCHANGED <<engVars, uiVars, sessionVars>>

\* What translate_batch may hand back for the text of one region: changed or
\* not, with a confidence at the threshold or just above it.
ReturnedResults ==
    {[original_text |-> TxtStart, translated_text |-> p[1], confidence |-> p[2],
      glossary_matches |-> <<>>] :
        p \in {<<TxtStart, 51>>, << <<"Start">>, 50>>, << <<"Start">>, 51>>}}

\* _process_translations from the zip loop on (lines 273-294), for the
\* translation_results translate_batch handed back for ocr_results.
ShowTranslations(ocr_results, translation_results) ==
    \E v \in {ValidPairs(ocr_results, translation_results)} :
        /\ stats.texts_translated + Len(v.valid_translations) <= MaxCount
        /\ stats' = [stats EXCEPT !.texts_translated = @ + Len(v.valid_translations)]
        /\ emitted' = [signalled |-> TRUE, ocr |-> v.valid_ocr,
                       translations |-> v.valid_translations]
        /\ last' = [op |-> "show", ocr_results |-> ocr_results,
                    translation_results |-> translation_results]
        /\ UNCHANGED <<engVars, uiVars, glossary, sessionVars>>

\* Recognition by PaddleOCR; translation by Google or by no engine.
PipelineEnvs ==
    {e \in Envs : /\ e.use_glossary /\ e.paddle /\ ~e.tesseract /\ ~e.openai
                  /\ e.ocr_engine = "paddleocr" /\ e.primary_engine = "google"}

InitPipeline == \E e \in PipelineEnvs : Constructed(e)

NextPipeline ==
    \/ \E raw \in RawOutputs, be \in BackendBehaviours :
          AcceptedFrame(raw, "rowid", be)
    \/ \E rs \in SeqsUpTo(ReturnedResults, MaxRegions) \ {<<>>} :
          ShowTranslations([i \in 1..Len(rs) |-> OCRResult(TxtStart, 12, 90)], rs)

SpecPipeline == InitPipeline /\ [][NextPipeline]_vars

NextFilter ==
    \E raw \in SeqsUpTo(FilterRegions, MaxRegions), recognition \in Recognitions,
       be \in BackendBehaviours : FilteredFrame(raw, recognition, be)

SpecFilter == InitPipeline /\ [][NextFilter]_vars

\* Frames whose regions hold a glossary term, a term no glossary row has,
\* and a text with one of the phrases _post_process_translation replaces.
RawIO == <<TxtIO, 12, 90>>

ShownRegions == {RawStart, RawUnknown, RawIO}

NextShown ==
    \E raw \in SeqsUpTo(ShownRegions, MaxRegions), recognition \in Recognitions,
       be \in BackendBehaviours : FilteredFrame(raw, recognition, be)

SpecShown == InitPipeline /\ [][NextShown]_vars

(***************************************************************************)
(* RealTimeMonitor and the session of LiveScreenTranslator                 *)
(***************************************************************************)
\* What is on the screen, and the zero-sized array a failed capture returns.
Frames == {"F1"}

EmptyImage == "Empty"

\* What the recognition engine reads on each: an unknown term, or blank.
RawOf(image) == IF image = "F1" THEN <<RawUnknown>> ELSE <<RawBlank>>

\* A captured frame, not empty, on which cv2.resize or cv2.cvtColor raises.
UnhashableImage == "Bad"

\* _calculate_image_hash: equal frames have equal hashes; any error inside
\* it is caught and the hash is 0.
CalculateImageHash(image) ==
    IF image = UnhashableImage THEN "0"
    ELSE IF image = "F1" THEN "h1" ELSE "h2"

\* Thread.is_alive()
Alive(t) == threads[t].pc \notin {"unborn", "done"}

\* The thread threading.Thread(...) makes: the first one not made yet.
NewThread ==
    CHOOSE t \in Tids :
        /\ threads[t].pc = "unborn"
        /\ \A u \in Tids : threads[u].pc = "unborn" => t <= u

\* start_monitoring past its guard: the target, the flag, a started thread.
\* self.monitor_regions = regions or [] keeps the caller's list object when
\* it is not empty: shared says that the monitor's list is the list of
\* LiveScreenTranslator (the one caller that passes regions), so that a
\* change made to that list in place is seen by the loop.
SpawnMonitor(target_window, regions) ==
    /\ \E t \in Tids : threads[t].pc = "unborn"
    /\ mon' = [target_window |-> target_window, monitor_regions |-> regions,
               shared |-> regions # <<>> /\ regions = app.monitor_regions]
    /\ is_monitoring' = TRUE
    /\ monitor_thread' = NewThread
    /\ threads' = [threads EXCEPT ![NewThread] = [Unborn EXCEPT !.pc = "loop"]]
    /\ lastCap' = "None"
    /\ UNCHANGED joining

\* A start that layers a new worker on a running monitor.
StartMonitoring_Layered(target_window, regions) ==
    SpawnMonitor(target_window, regions)

\* RealTimeMonitor.start_monitoring
StartMonitoring(target_window, regions) ==
    IF is_monitoring THEN UNCHANGED monVars
    ELSE SpawnMonitor(target_window, regions)

StartMonitoringCall(target_window, regions) ==
    /\ joining.tid = 0
    /\ StartMonitoring(target_window, regions)
    /\ last' = [op |-> "start_monitoring", rejected |-> is_monitoring]
    /\ UNCHANGED <<engVars, uiVars, glossary, appVars, translation_active, app>>

\* LiveScreenTranslator.start_translation
DoStartTranslation ==
    /\ joining.tid = 0
    /\ IF translation_active
       THEN /\ last' = [op |-> "start_translation", outcome |-> "already active"]
            /\ UNCHANGED <<stats, translation_active, monVars>>
       ELSE IF ocr_primary = "None" \/ tm_primary = "None"
       THEN /\ last' = [op |-> "start_translation", outcome |-> "no engine"]
            /\ UNCHANGED <<stats, translation_active, monVars>>
       ELSE /\ stats.sessions_count < MaxStarts
            /\ IF app.current_mode = "app" /\ app.target_window # "None"
               THEN StartMonitoring(app.target_window, <<>>)
               ELSE IF app.current_mode = "region" /\ app.monitor_regions # <<>>
               THEN StartMonitoring("None", app.monitor_regions)
               ELSE StartMonitoring("None", <<>>)
            /\ translation_active' = TRUE
            /\ stats' = [stats EXCEPT !.sessions_count = @ + 1]
            /\ last' = [op |-> "start_translation", outcome |-> "started"]
    /\ UNCHANGED <<engVars, glossary, emitted, app>>

\* start_translation called by itself: the main window is not involved.
StartTranslation ==
    /\ DoStartTranslation
    /\ UNCHANGED uiVars

\* LiveScreenTranslator.set_target_window
SetTargetWindow(window_info) ==
    /\ joining.tid = 0
    /\ app' = [app EXCEPT !.target_window = window_info, !.current_mode = "app"]
    /\ last' = NoCall
    /\ UNCHANGED <<engVars, uiVars, glossary, appVars, translation_active, monVars>>

\* LiveScreenTranslator.add_monitor_region, for a first region
AddMonitorRegion(region) ==
    /\ joining.tid = 0
    /\ app.monitor_regions = <<>>
    /\ app' = [app EXCEPT !.monitor_regions = Append(@, region),
                          !.current_mode = "region"]
    /\ mon' = IF mon.shared
              THEN [mon EXCEPT !.monitor_regions = Append(@, region)]
              ELSE mon
    /\ last' = NoCall
    /\ UNCHANGED <<engVars, uiVars, glossary, appVars, translation_active, is_monitoring,
                   monitor_thread, threads, joining, lastCap>>

\* stop_monitoring up to the join: the flag is cleared, and the caller waits
\* for monitor_thread if it is alive.
StopMonitoringBegin ==
    /\ is_monitoring' = FALSE
    /\ joining' = IF monitor_thread # 0 /\ Alive(monitor_thread)
                  THEN [tid |-> monitor_thread]
                  ELSE NoJoin
    /\ UNCHANGED <<monitor_thread, mon, threads, lastCap>>

\* LiveScreenTranslator.stop_translation, called
DoStopTranslation ==
    /\ joining.tid = 0
    /\ IF ~translation_active
       THEN /\ last' = NoCall
            /\ UNCHANGED <<translation_active, monVars>>
       ELSE /\ StopMonitoringBegin
            /\ translation_active' =
                  IF monitor_thread # 0 /\ Alive(monitor_thread)
                  THEN translation_active ELSE FALSE
            /\ last' = NoCall
    /\ UNCHANGED <<engVars, glossary, appVars, app>>

StopTranslation ==
    /\ DoStopTranslation
    /\ UNCHANGED uiVars

\* monitor_thread.join(timeout=2.0) returns: the thread has ended, or it is
\* still inside a recognition or translation call when the 2.0 s are over.
\* stop_monitoring returns, and stop_translation after it.
JoinReturns(timed_out) ==
    /\ joining.tid # 0
    /\ IF timed_out
       THEN threads[joining.tid].pc \in {"ocr", "translate"}
       ELSE threads[joining.tid].pc = "done"
    /\ joining' = NoJoin
    /\ translation_active' = FALSE
    /\ last' = NoCall
    /\ UNCHANGED <<engVars, uiVars, glossary, appVars, app, is_monitoring, monitor_thread,
                   mon, threads, lastCap>>

\* A statement of the try body that raises instead of returning.
RaisedError == "Raise"

\* How a callback's call ends: it returns; an error inside it is caught by the
\* callback's own handler (_process_ocr, _process_translations); or an error
\* leaves the callback and reaches _monitor_loop.
Faults == {"none", "caught", "raised"}

\* A handler that leaves the loop.
OnLoopException_Break(t) ==
    [threads EXCEPT ![t].pc = "done", ![t].image = "None",
                    ![t].ocr_results = <<>>]

\* _monitor_loop's handler: except Exception, then time.sleep(1.0). The
\* thread stays inside the while loop with its locals.
OnLoopException(t) ==
    [threads EXCEPT ![t].pc = "backoff", ![t].image = "None",
                    ![t].ocr_results = <<>>]

\* _monitor_loop, from the while test to the hash comparison: the thread ends
\* when is_monitoring is false; it sleeps while the time gate is closed, which
\* changes nothing; otherwise it captures image and goes on to recognition
\* unless the image is empty or its hash is previous_hash. (Whether the image
\* comes from target_window, monitor_regions[0] or the full screen, it is one
\* of the same images.) A capture that raises goes to the handler. running
\* is the outcome of the while test, changed that of the hash comparison.
MonitorLoopBody(t, image, running, changed) ==
    /\ threads[t].pc = "loop"
    /\ IF ~running
       THEN /\ threads' = [threads EXCEPT ![t] = [Unborn EXCEPT !.pc = "done"]]
            /\ UNCHANGED lastCap
       ELSE /\ threads[t].last_capture_time = "past"
            /\ IF image = RaisedError
               THEN /\ threads' = OnLoopException(t)
                    /\ UNCHANGED lastCap
               ELSE IF image = EmptyImage
               THEN UNCHANGED <<threads, lastCap>>
               ELSE /\ lastCap' = CalculateImageHash(image)
                    /\ IF ~changed
                       THEN UNCHANGED threads
                       ELSE threads' = [threads EXCEPT
                                ![t].pc = "ocr",
                                ![t].previous_hash = CalculateImageHash(image),
                                ![t].last_capture_time = "recent",
                                ![t].image = image]
    /\ UNCHANGED <<engVars, uiVars, glossary, appVars, translation_active, app,
                   is_monitoring, monitor_thread, mon, joining>>

\* A loop that does not test is_monitoring: while True.
MonitorLoopCapture_Forever(t, image) ==
    MonitorLoopBody(t, image, TRUE,
                    CalculateImageHash(image) # threads[t].previous_hash)

\* A loop that drops the frames that changed and keeps the others.
MonitorLoopCapture_DropChanged(t, image) ==
    MonitorLoopBody(t, image, is_monitoring,
                    CalculateImageHash(image) = threads[t].previous_hash)

\* while self.is_monitoring ... if current_hash == previous_hash: continue
MonitorLoopCapture(t, image) ==
    MonitorLoopBody(t, image, is_monitoring,
                    CalculateImageHash(image) # threads[t].previous_hash)

WorkerCapture(t, image) ==
    /\ MonitorLoopCapture(t, image)
    /\ last' = NoCall

\* A capture primitive that lets the screenshot's error out.
CaptureFrame_Raising(screen, outcome) ==
    IF outcome = "error" THEN RaisedError ELSE screen

\* capture_full_screen, capture_window, capture_region: the screenshot of
\* the screen's content, or, when pyautogui.screenshot or cv2.cvtColor
\* raises, the empty array of the except clause.
CaptureFrame(screen, outcome) ==
    IF outcome = "error" THEN EmptyImage ELSE screen

ScreenshotOutcomes == {"ok", "error"}

\* The same steps of _monitor_loop with the capture primitive's call written
\* out and the acquisition recorded in last.
WorkerAcquire(t, screen, outcome) ==
    /\ MonitorLoopCapture(t, CaptureFrame(screen, outcome))
    /\ last' = IF is_monitoring
               THEN [op |-> "capture", tid |-> t, screen |-> screen,
                     outcome |-> outcome,
                     changed |-> CalculateImageHash(screen)
                                    # threads[t].previous_hash]
               ELSE NoCall

\* A loop that tests is_monitoring again before the callback and drops the
\* frame it has accepted.
WorkerOcr_Cancellable(t, fault) ==
    /\ threads[t].pc = "ocr"
    /\ IF is_monitoring
       THEN threads' = [threads EXCEPT ![t].pc = "loop", ![t].image = "None"]
       ELSE threads' = [threads EXCEPT ![t] = [Unborn EXCEPT !.pc = "done"]]
    /\ last' = NoCall
    /\ UNCHANGED <<engVars, uiVars, glossary, appVars, translation_active, app,
                   is_monitoring, monitor_thread, mon, joining, lastCap>>

\* _monitor_loop: ocr_results = self.ocr_callback(image), which is
\* _process_ocr. When preprocessing or recognition raises, _process_ocr
\* catches it and returns [], and the loop goes round; an error that leaves
\* the callback goes to the loop's handler.
WorkerOcr(t, fault) ==
    /\ threads[t].pc = "ocr"
    /\ IF fault # "none"
       THEN /\ threads' = IF fault = "raised" THEN OnLoopException(t)
                          ELSE [threads EXCEPT ![t].pc = "loop", ![t].image = "None",
                                               ![t].ocr_results = <<>>]
            /\ last' = NoCall
            /\ UNCHANGED stats
       ELSE
       /\ last' = NoCall
       /\ \E po \in {ProcessOcr(ocr_engines, ocr_primary, RawOf(threads[t].image),
                             stats.texts_detected)} :
          /\ po.texts_detected <= MaxCount
          /\ stats' = [stats EXCEPT !.texts_detected = po.texts_detected]
          /\ threads' = [threads EXCEPT
                            ![t].pc = IF po.filtered # <<>> THEN "translate" ELSE "loop",
                            ![t].image = "None",
                            ![t].ocr_results = po.filtered]
    /\ UNCHANGED <<engVars, uiVars, glossary, emitted, translation_active, app,
                   is_monitoring, monitor_thread, mon, joining, lastCap>>

\* _monitor_loop: self.translation_callback(ocr_results), which is
\* _process_translations. When translate_batch raises, _process_translations
\* catches it before anything is counted or emitted.
WorkerTranslate(t, be, fault) ==
    /\ threads[t].pc = "translate"
    /\ IF fault # "none"
       THEN /\ last' = NoCall
            /\ threads' = IF fault = "raised" THEN OnLoopException(t)
                          ELSE [threads EXCEPT ![t].pc = "loop",
                                               ![t].ocr_results = <<>>]
            /\ UNCHANGED <<glossary, stats, emitted>>
       ELSE
       /\ threads' = [threads EXCEPT ![t].pc = "loop", ![t].ocr_results = <<>>]
       /\ last' = NoCall
       /\ \E pt \in {ProcessTranslations(threads[t].ocr_results, glossary, tm_primary,
                      env.use_glossary, stats.texts_translated, "rowid", be)} :
          /\ pt.texts_translated <= MaxCount
          /\ glossary' = pt.store
          /\ stats' = [stats EXCEPT !.texts_translated = pt.texts_translated]
          /\ emitted' = [signalled |-> TRUE, ocr |-> pt.valid_ocr,
                         translations |-> pt.valid_translations]
    /\ UNCHANGED <<engVars, uiVars, translation_active, app,
                   is_monitoring, monitor_thread, mon, joining, lastCap>>

\* _monitor_loop: time.sleep(1.0) in the handler is over; back to the while
\* test.
WorkerBackoff(t) ==
    /\ threads[t].pc = "backoff"
    /\ threads' = [threads EXCEPT ![t].pc = "loop"]
    /\ last' = NoCall
    /\ UNCHANGED <<engVars, uiVars, glossary, appVars, translation_active, app,
                   is_monitoring, monitor_thread, mon, joining, lastCap>>

\* frame_interval goes by: every last_capture_time is in the past.
FrameIntervalPasses ==
    /\ \E t \in Tids : threads[t].last_capture_time = "recent"
    /\ threads' = [t \in Tids |-> [threads[t] EXCEPT !.last_capture_time = "past"]]
    /\ last' = NoCall
    /\ UNCHANGED <<engVars, uiVars, glossary, appVars, translation_active, app,
                   is_monitoring, monitor_thread, mon, joining, lastCap>>

\* Every engine available, the default configuration.
SessionEnvs ==
    {e \in Envs : /\ e.paddle /\ e.tesseract /\ e.google /\ e.openai /\ e.use_glossary
                  /\ e.ocr_engine = "paddleocr" /\ e.primary_engine = "google"}

Init == \E e \in SessionEnvs : Constructed(e)

Worker(t) ==
    \/ \E image \in Frames \cup {EmptyImage, RaisedError} : WorkerCapture(t, image)
    \/ \E fault \in Faults : WorkerOcr(t, fault)
    \/ \E be \in BackendBehaviours, fault \in Faults : WorkerTranslate(t, be, fault)
    \/ WorkerBackoff(t)

Next ==
    \/ StartTranslation
    \/ StopTranslation
    \/ SetTargetWindow("W1")
    \/ AddMonitorRegion("R1")
    \/ StartMonitoringCall("W1", <<>>)
    \/ \E timed_out \in BOOLEAN : JoinReturns(timed_out)
    \/ \E t \in Tids : Worker(t)
    \/ FrameIntervalPasses

Spec == Init /\ [][Next]_vars

\* The session with its worker threads scheduled fairly: a thread that can
\* take a step of _monitor_loop (its capture and its callbacks return, its
\* sleeps end) eventually takes one.
NextFair ==
    \/ StartTranslation
    \/ StopTranslation
    \/ \E timed_out \in BOOLEAN : JoinReturns(timed_out)
    \/ \E t \in Tids : Worker(t)
    \/ FrameIntervalPasses

SpecFair ==
    /\ Init
    /\ [][NextFair]_vars
    /\ \A t \in Tids : WF_vars(Worker(t))

\* The fairly scheduled session on a changing screen, where time goes by:
\* the frame interval eventually passes. The translation backend is down.
WorkerOnLiveScreen(t) ==
    \/ \E screen \in Frames \cup {"F2"}, outcome \in ScreenshotOutcomes :
          WorkerAcquire(t, screen, outcome)
    \/ \E fault \in Faults : WorkerOcr(t, fault)
    \/ \E fault \in Faults : WorkerTranslate(t, "fail", fault)
    \/ WorkerBackoff(t)

NextLive ==
    \/ StartTranslation
    \/ StopTranslation
    \/ \E timed_out \in BOOLEAN : JoinReturns(timed_out)
    \/ \E t \in Tids : WorkerOnLiveScreen(t)
    \/ FrameIntervalPasses

SpecLive ==
    /\ Init
    /\ [][NextLive]_vars
    /\ \A t \in Tids : WF_vars(WorkerOnLiveScreen(t))
    /\ WF_vars(FrameIntervalPasses)

\* The session on a screen whose content changes: a second content, on
\* which the recognition engine reads a blank.
ChangingFrames == Frames \cup {"F2"}

WorkerOnChangingScreen(t) ==
    \/ \E screen \in ChangingFrames \cup {UnhashableImage},
          outcome \in ScreenshotOutcomes : WorkerAcquire(t, screen, outcome)
    \/ WorkerCapture(t, RaisedError)
    \/ \E fault \in Faults : WorkerOcr(t, fault)
    \/ \E be \in BackendBehaviours, fault \in Faults : WorkerTranslate(t, be, fault)
    \/ WorkerBackoff(t)

NextTiming ==
    \/ StartTranslation
    \/ StopTranslation
    \/ \E timed_out \in BOOLEAN : JoinReturns(timed_out)
    \/ \E t \in Tids : WorkerOnChangingScreen(t)
    \/ FrameIntervalPasses

SpecTiming == Init /\ [][NextTiming]_vars

\* The session whose screenshots may fail, the callbacks returning normally.
WorkerOnFailingCapture(t) ==
    \/ \E screen \in Frames, outcome \in ScreenshotOutcomes :
          WorkerAcquire(t, screen, outcome)
    \/ WorkerOcr(t, "none")
    \/ \E be \in BackendBehaviours : WorkerTranslate(t, be, "none")

NextCapture ==
    \/ StartTranslation
    \/ StopTranslation
    \/ \E timed_out \in BOOLEAN : JoinReturns(timed_out)
    \/ \E t \in Tids : WorkerOnFailingCapture(t)
    \/ FrameIntervalPasses

SpecCapture == Init /\ [][NextCapture]_vars

\* start_translation called from two threads with no lock between them:
\* each statement that reads or writes a shared field is a step of its own.
\* (The hotkey thread comes through toggle_translation, which found
\* translation_active false.)

\* start_translation, lines 134-144: the tests of translation_active and of
\* the engines.
StartTranslationEnter(c) ==
    /\ callers[c].pc = "idle"
    /\ callers' = [callers EXCEPT ![c].pc =
                      IF translation_active \/ ocr_primary = "None"
                         \/ tm_primary = "None"
                      THEN "returned" ELSE "start_monitoring"]
    /\ last' = NoCall
    /\ UNCHANGED <<engVars, is_translating, glossary, appVars, sessionVars>>

\* start_monitoring, line 202: the test of is_monitoring.
StartMonitoringTest(c) ==
    /\ callers[c].pc = "start_monitoring"
    /\ callers' = [callers EXCEPT ![c].pc =
                      IF is_monitoring THEN "activate" ELSE "spawn"]
    /\ last' = NoCall
    /\ UNCHANGED <<engVars, is_translating, glossary, appVars, sessionVars>>

\* start_monitoring, lines 206-212, after the test has passed.
StartMonitoringSpawn(c) ==
    /\ callers[c].pc = "spawn"
    /\ IF app.current_mode = "app" /\ app.target_window # "None"
       THEN SpawnMonitor(app.target_window, <<>>)
       ELSE IF app.current_mode = "region" /\ app.monitor_regions # <<>>
       THEN SpawnMonitor("None", app.monitor_regions)
       ELSE SpawnMonitor("None", <<>>)
    /\ callers' = [callers EXCEPT ![c].pc = "activate"]
    /\ last' = NoCall
    /\ UNCHANGED <<engVars, is_translating, glossary, appVars,
                   translation_active, app>>

\* start_translation, line 154: self.translation_active = True
StartTranslationActivate(c) ==
    /\ callers[c].pc = "activate"
    /\ translation_active' = TRUE
    /\ callers' = [callers EXCEPT ![c].pc = "count"]
    /\ last' = NoCall
    /\ UNCHANGED <<engVars, is_translating, glossary, appVars, app, monVars>>

\* start_translation, line 155: self.stats['sessions_count'] += 1, the read
StartTranslationCountRead(c) ==
    /\ callers[c].pc = "count"
    /\ callers' = [callers EXCEPT ![c].pc = "count_write",
                                  ![c].count = stats.sessions_count]
    /\ last' = NoCall
    /\ UNCHANGED <<engVars, is_translating, glossary, appVars, sessionVars>>

\* and the write.
StartTranslationCountWrite(c) ==
    /\ callers[c].pc = "count_write"
    /\ stats' = [stats EXCEPT !.sessions_count = callers[c].count + 1]
    /\ callers' = [callers EXCEPT ![c].pc = "returned", ![c].count = 0]
    /\ last' = NoCall
    /\ UNCHANGED <<engVars, is_translating, glossary, emitted, sessionVars>>

Caller(c) ==
    \/ StartTranslationEnter(c)
    \/ StartMonitoringTest(c)
    \/ StartMonitoringSpawn(c)
    \/ StartTranslationActivate(c)
    \/ StartTranslationCountRead(c)
    \/ StartTranslationCountWrite(c)

NextConcurrent ==
    \/ \E c \in Callers : Caller(c)
    \/ \E t \in Tids : WorkerOnFailingCapture(t)
    \/ FrameIntervalPasses

SpecConcurrent == Init /\ [][NextConcurrent]_vars

\* capture_and_translate_once called on thread c while a session may be
\* running: the worker thread's callbacks and this call share stats with no
\* lock, so the read and the write of a += are steps of their own.

\* capture_and_translate_once, lines 314-324, and _process_ocr up to the read
\* of stats['texts_detected'] (line 247). An empty image returns at once.
CaptureOnceDetect(c, image) ==
    /\ callers[c].pc = "idle"
    /\ callers' = [callers EXCEPT
          ![c].pc = "detected_write",
          ![c].count = stats.texts_detected,
          ![c].ocr_results = ProcessOcr(ocr_engines, ocr_primary, RawOf(image),
                                        stats.texts_detected).filtered]
    /\ last' = NoCall
    /\ UNCHANGED <<engVars, is_translating, glossary, appVars, sessionVars>>

\* _process_ocr, line 247: the write of stats['texts_detected'], and the
\* return of capture_and_translate_once when nothing was kept (326-327).
CaptureOnceCount(c) ==
    /\ callers[c].pc = "detected_write"
    /\ callers[c].count + Len(callers[c].ocr_results) <= MaxCount
    /\ stats' = [stats EXCEPT !.texts_detected =
                     callers[c].count + Len(callers[c].ocr_results)]
    /\ callers' = IF callers[c].ocr_results = <<>>
                  THEN [callers EXCEPT ![c] = NotCalling]
                  ELSE [callers EXCEPT ![c].pc = "translate", ![c].count = 0]
    /\ last' = NoCall
    /\ UNCHANGED <<engVars, is_translating, glossary, emitted, sessionVars>>

\* capture_and_translate_once, lines 329-336: translate_batch and the
\* overlay; no counter is touched and no signal emitted.
CaptureOnceTranslate(c, be) ==
    /\ callers[c].pc = "translate"
    /\ glossary' = TranslateBatch(glossary, tm_primary, env.use_glossary,
                       [i \in 1..Len(callers[c].ocr_results) |->
                           callers[c].ocr_results[i].text], "rowid", be).store
    /\ callers' = [callers EXCEPT ![c] = NotCalling]
    /\ last' = NoCall
    /\ UNCHANGED <<engVars, is_translating, appVars, sessionVars>>

CaptureAndTranslateOnce(c) ==
    \/ \E image \in Frames \cup {"F2"} : CaptureOnceDetect(c, image)
    \/ CaptureOnceCount(c)
    \/ \E be \in BackendBehaviours : CaptureOnceTranslate(c, be)

NextCounters ==
    \/ StartTranslation
    \/ StopTranslation
    \/ \E timed_out \in BOOLEAN : JoinReturns(timed_out)
    \/ \E t \in Tids : WorkerOnFailingCapture(t)
    \/ FrameIntervalPasses
    \/ CaptureAndTranslateOnce("ui")

SpecCounters == Init /\ [][NextCounters]_vars

\* The application constructed where no recognition engine, or no
\* translation engine, is available. No session can be stopped there, so
\* stop_monitoring's join is never entered.
DegradedEnvs ==
    {e \in Envs : /\ (~e.paddle /\ ~e.tesseract) \/ (~e.google /\ ~e.openai)
                  /\ e.use_glossary
                  /\ e.ocr_engine = "paddleocr" /\ e.primary_engine = "google"}

InitDegraded == \E e \in DegradedEnvs : Constructed(e)

NextDegraded ==
    \/ StartTranslation
    \/ StopTranslation
    \/ SetTargetWindow("W1")
    \/ AddMonitorRegion("R1")
    \/ StartMonitoringCall("W1", <<>>)
    \/ \E t \in Tids : Worker(t)
    \/ FrameIntervalPasses

SpecDegraded == InitDegraded /\ [][NextDegraded]_vars

\* MainWindow._toggle_translation, the slot of the Start button: it emits
\* start_translation or stop_translation, which runs the connected method of
\* LiveScreenTranslator, and then flips is_translating whatever the method
\* did. (During a stop the flag is written once stop_translation has
\* returned; nothing reads it in between.)
MainWindowToggle ==
    /\ IF is_translating THEN DoStopTranslation ELSE DoStartTranslation
    /\ is_translating' = ~is_translating
    /\ UNCHANGED callers

\* LiveScreenTranslator.toggle_translation, the callback of ctrl+shift+t
HotkeyToggle ==
    /\ IF translation_active THEN DoStopTranslation ELSE DoStartTranslation
    /\ UNCHANGED uiVars

\* The application with its main window, with or without engines.
UiEnvs == SessionEnvs \cup DegradedEnvs

InitUi == \E e \in UiEnvs : Constructed(e)

NextUi ==
    \/ MainWindowToggle
    \/ HotkeyToggle
    \/ \E timed_out \in BOOLEAN : JoinReturns(timed_out)
    \/ \E t \in Tids : WorkerOnFailingCapture(t)
    \/ FrameIntervalPasses

SpecUi == InitUi /\ [][NextUi]_vars

(***************************************************************************)
(* ConfigManager on its own: set and get with dotted key paths.            *)
(***************************************************************************)
\* Key paths: a setting and a section of the default configuration, a path
\* below that setting, a section and a setting that do not exist yet, and
\* paths with an empty key ('' and 'ocr.').
KeyPaths ==
    { <<"ocr", ".", "engine">>, <<"ocr">>, <<"ocr", ".", "engine", ".", "name">>,
      <<"ui">>, <<"ui", ".", "theme">>, <<>>, <<"ocr", ".">> }

ConfigValues == {"v1", "v2"}

\* ConfigManager.set(key_path, value)
ConfigSetCall(key_path, value) ==
    \E r \in {ConfigSet(config, key_path, ConfigStr(value))} :
        /\ config' = r.node
        /\ last' = [op |-> "config_set", key_path |-> key_path, value |-> value,
                    raised |-> r.raised]
        /\ UNCHANGED <<env, tm_engines, tm_primary, ocr_engines, ocr_primary,
                       uiVars, glossary, appVars, sessionVars>>

\* ConfigManager.get(key_path, "default")
ConfigGetCall(key_path) ==
    /\ last' = [op |-> "config_get", key_path |-> key_path,
                result |-> ConfigGet(config, key_path, ConfigStr("default")),
                raised |-> FALSE]
    /\ UNCHANGED <<engVars, uiVars, glossary, appVars, sessionVars>>

NextConfig ==
    \/ \E key_path \in KeyPaths, value \in ConfigValues : ConfigSetCall(key_path, value)
    \/ \E key_path \in KeyPaths : ConfigGetCall(key_path)

SpecConfig == Init /\ [][NextConfig]_vars

\* The dict MainWindow._save_settings emits: one nested dict per section,
\* holding the settings the dialog shows.
NewConfig(engine, primary_engine) ==
    [k \in {<<"ocr">>, <<"translation">>} |->
        IF k = <<"ocr">>
        THEN ConfigDict([j \in {<<"engine">>} |-> ConfigStr(engine)])
        ELSE ConfigDict([j \in {<<"primary_engine">>} |-> ConfigStr(primary_engine)])]

\* LiveScreenTranslator.update_settings(new_settings), for the dict of
\* _save_settings; its keys come in the order of the dict literal.
UpdateSettings(engine, primary_engine) ==
    /\ config' = UpdateSettingsFrom(config, NewConfig(engine, primary_engine),
                                    << <<"ocr">>, <<"translation">> >>, 1)
    /\ last' = [op |-> "update_settings", engine |-> engine,
                primary_engine |-> primary_engine]
    /\ UNCHANGED <<env, tm_engines, tm_primary, ocr_engines, ocr_primary,
                   uiVars, glossary, appVars, sessionVars>>

NextSettings ==
    \/ \E engine \in {"paddleocr", "tesseract"}, primary_engine \in {"google", "openai"} :
          UpdateSettings(engine, primary_engine)
    \/ \E key_path \in KeyPaths, value \in ConfigValues : ConfigSetCall(key_path, value)
    \/ \E key_path \in KeyPaths : ConfigGetCall(key_path)

SpecSettings == Init /\ [][NextSettings]_vars

\* LiveScreenTranslator.load_industrial_profile for a profile of the
\* configuration: window is the first window found for the profile's title
\* pattern ("None": no 'executable' key, or no window found), regions the
\* profile's ui_regions. The list of regions is cleared and filled in place.
LoadIndustrialProfile(window, regions) ==
    /\ joining.tid = 0
    /\ app' = [app EXCEPT
                 !.target_window = IF window # "None" THEN window ELSE @,
                 !.current_mode = IF window # "None" THEN "app" ELSE @,
                 !.monitor_regions = regions]
    /\ mon' = IF mon.shared THEN [mon EXCEPT !.monitor_regions = regions] ELSE mon
    /\ last' = NoCall
    /\ UNCHANGED <<engVars, uiVars, glossary, appVars, translation_active, is_monitoring,
                   monitor_thread, threads, joining, lastCap>>

\* RealTimeMonitor.add_monitor_region, for a first region: an append in
\* place.
MonitorAddRegion(region) ==
    /\ joining.tid = 0
    /\ mon.monitor_regions = <<>>
    /\ mon' = [mon EXCEPT !.monitor_regions = Append(@, region)]
    /\ app' = IF mon.shared
              THEN [app EXCEPT !.monitor_regions = Append(@, region)]
              ELSE app
    /\ last' = NoCall
    /\ UNCHANGED <<engVars, uiVars, glossary, appVars, translation_active, is_monitoring,
                   monitor_thread, threads, joining, lastCap>>

\* RealTimeMonitor.remove_monitor_region: a new list without the region.
MonitorRemoveRegion(region_name) ==
    /\ joining.tid = 0
    /\ mon' = [mon EXCEPT
                 !.monitor_regions = SelectSeq(@, LAMBDA r : r # region_name),
                 !.shared = FALSE]
    /\ last' = NoCall
    /\ UNCHANGED <<engVars, uiVars, glossary, appVars, translation_active, app,
                   is_monitoring, monitor_thread, threads, joining, lastCap>>

\* What _monitor_loop captures from: target_window if set, else
\* monitor_regions[0] if there is one, else the full screen.
ActiveTarget ==
    IF mon.target_window # "None" THEN <<"window", mon.target_window>>
    ELSE IF mon.monitor_regions # <<>> THEN <<"region", mon.monitor_regions[1]>>
    ELSE <<"screen", "None">>

\* The session with the calls that touch the targets.
NextTarget ==
    \/ Next
    \/ \E window \in {"None", "W1"} : LoadIndustrialProfile(window, <<"P1">>)
    \/ MonitorAddRegion("R1")
    \/ MonitorRemoveRegion("R1")

SpecTarget == Init /\ [][NextTarget]_vars

(***************************************************************************)
(* Claims                                                                  *)
(***************************************************************************)
\* The rows of term that no other row of term ranks above.
TopRanked(store, term) ==
    LET rows == Matching(store, term)
    IN  {rows[i] : i \in {j \in 1..Len(rows) :
                            \A k \in 1..Len(rows) : ~RanksAbove(rows[k], rows[j])}}

\* C2: when the glossary, consulted, holds an entry for T, translate(T) returns
\* the target of a top-ranked entry for T (highest confidence, then highest
\* usage count) with a non-empty glossary_matches, and does not call the
\* translation backend, whatever primary_engine is.
C2_GlossaryPrecedence ==
    [][ (/\ last'.op = "translate"
         /\ env.use_glossary
         /\ Matching(glossary, last'.text) # <<>>)
        => (/\ \E r \in TopRanked(glossary, last'.text) :
                  last'.result.translated_text = r.english
            /\ last'.result.glossary_matches # <<>>
            /\ ~last'.engine_called) ]_vars

\* C3: on a glossary miss, with no translation backend or with the primary
\* backend failing, translate(text) returns translated_text = text and
\* confidence 0.0.
C3_FailedTranslationIsIdentityWithZeroConfidence ==
    (/\ last.op = "translate"
     /\ env.use_glossary
     /\ last.result.glossary_matches = <<>>
     /\ (tm_primary = "None" \/ last.be = "fail"))
    => (/\ last.result.translated_text = last.text
        /\ last.result.confidence = 0)

NonBlank(texts) == SelectSeq(texts, LAMBDA t : Strip(t) # <<>>)

\* C6: translate_batch(texts) returns, in input order, the result of
\* translate(t) for each non-blank t of texts and nothing for a blank or
\* whitespace-only t.  (A lookup made for an earlier element raises the usage
\* counts of all rows of its term together, so translate(t) gives the same
\* result before the batch as at t's turn in it.)
C6_BatchTranslatesNonBlankInOrder ==
    [][ last'.op = "translate_batch"
        => \E tie \in TieBreaks, be \in BackendBehaviours :
             LET nb == NonBlank(last'.texts)
             IN  /\ Len(last'.results) = Len(nb)
                 /\ \A i \in 1..Len(nb) :
                       last'.results[i] =
                           Translate(glossary, tm_primary, env.use_glossary,
                                     nb[i], TRUE, tie, be).result ]_vars

\* A batch whose first text is blank and whose second is not has been translated.
C6_Witness ==
    /\ last.op = "translate_batch"
    /\ Len(last.texts) >= 2
    /\ Strip(last.texts[1]) = <<>>
    /\ Strip(last.texts[2]) # <<>>
    /\ Len(last.results) = 1
    /\ last.results[1].original_text = last.texts[2]

\* C4: every (region, translation) pair emitted through translation_completed
\* has translated_text different from original_text and a confidence strictly
\* above 0.5; a result with equal texts, or with confidence exactly 0.5, is
\* in no emission.
C4_EmissionFilter ==
    /\ Len(emitted.ocr) = Len(emitted.translations)
    /\ \A i \in 1..Len(emitted.translations) :
          /\ emitted.translations[i].translated_text
                 # emitted.translations[i].original_text
          /\ emitted.translations[i].confidence > 50
          /\ emitted.translations[i].confidence # 50

\* A batch holding a changed text at confidence exactly 0.5 next to one that
\* passes: the emission holds the second and not the first.
C4_Witness ==
    /\ last.op = "show"
    /\ \E i \in 1..Len(last.translation_results) :
          /\ last.translation_results[i].confidence = 50
          /\ last.translation_results[i].translated_text
                 # last.translation_results[i].original_text
    /\ emitted.signalled
    /\ emitted.translations # <<>>
    /\ Len(emitted.translations) < Len(last.translation_results)

\* C5: whatever regions the recognition backend returns, blank ones included,
\* each emitted region is paired with the translation of its own text.
C5_PairingInvariant ==
    /\ Len(emitted.ocr) = Len(emitted.translations)
    /\ \A i \in 1..Len(emitted.ocr) :
          emitted.translations[i].original_text = emitted.ocr[i].text

\* A frame whose first region is blank and whose second is shown translated.
C5_Witness ==
    /\ last.op = "frame"
    /\ Len(last.raw) >= 2
    /\ Strip(last.raw[1][1]) = <<>>
    /\ emitted.signalled
    /\ emitted.ocr # <<>>
    /\ emitted.ocr[1].text = last.raw[2][1]

OcrAvailable(name) ==
    \/ name = "paddleocr" /\ env.paddle
    \/ name = "tesseract" /\ env.tesseract

TmAvailable(name) ==
    \/ name = "google" /\ env.google
    \/ name = "openai" /\ env.openai

FromEngine(raw) == [i \in 1..Len(raw) |-> OCRResult(raw[i][1], raw[i][2], raw[i][3])]

\* C7: detect_text hands the frame to the named engine when a name is given
\* and that engine is available, otherwise to the primary engine, and returns
\* what that engine returns; with no engine available it returns [].
C7_DetectTextDelegation ==
    last.op = "detect_text" =>
        /\ last.out.engine =
              IF last.engine_name # "None" /\ OcrAvailable(last.engine_name)
              THEN last.engine_name ELSE ocr_primary
        /\ last.out.engine # "None" => last.out.results = FromEngine(last.raw)
        /\ (~env.paddle /\ ~env.tesseract) => last.out.results = <<>>

\* The override names an available engine that is not the primary one, and
\* that engine is the one that recognises.
C7_Witness ==
    /\ last.op = "detect_text"
    /\ last.engine_name # "None"
    /\ OcrAvailable(last.engine_name)
    /\ last.engine_name # ocr_primary
    /\ last.out.engine = last.engine_name
    /\ last.out.results # <<>>

\* No engine at all: detect_text of an engine's frame is [].
C7_WitnessNoEngine ==
    /\ last.op = "detect_text"
    /\ ~env.paddle /\ ~env.tesseract
    /\ last.raw # <<>>
    /\ last.out.results = <<>>

OcrAvailableNames == {n \in {"paddleocr", "tesseract"} : OcrAvailable(n)}

TmAvailableNames == {n \in {"google", "openai"} : TmAvailable(n)}

\* The engine construction must choose among the available ones.
Chosen(preferred, first, second, available) ==
    IF preferred \in available THEN preferred
    ELSE IF first \in available THEN first
    ELSE IF second \in available THEN second
    ELSE "None"

\* C8: after construction exactly the engines reporting available are
\* registered, in probing order; primary_engine is the preferred engine if
\* available, else the first available one, else None; and with any engine
\* available, a request is served by an available engine.
C8_EngineRegistration ==
    /\ \A n \in {"paddleocr", "tesseract", "easyocr"} :
          InSeq(n, ocr_engines) <=> OcrAvailable(n)
    /\ \A n \in {"google", "openai", "deepl"} :
          InSeq(n, tm_engines) <=> TmAvailable(n)
    /\ ocr_primary = Chosen(env.ocr_engine, "paddleocr", "tesseract", OcrAvailableNames)
    /\ tm_primary = Chosen(env.primary_engine, "google", "openai", TmAvailableNames)
    /\ (last.op = "detect_text" /\ (env.paddle \/ env.tesseract))
          => OcrAvailable(last.out.engine)
    /\ (last.op = "translate" /\ (env.google \/ env.openai))
          => last.engine_called /\ TmAvailable(tm_primary)

\* The preferred recognition engine is unavailable, the other one is, and a
\* detect_text without override is served by it.
C8_Witness ==
    /\ ~OcrAvailable(env.ocr_engine)
    /\ env.tesseract
    /\ last.op = "detect_text"
    /\ last.engine_name = "None"
    /\ last.out.engine = "tesseract"
    /\ last.out.results # <<>>

\* C1: while monitoring runs, a non-empty frame whose fingerprint equals that
\* of the frame captured just before it is not handed to recognition (so it
\* triggers no recognition or translation call and texts_detected stays).
C1_IdempotentGating ==
    [][\A t \in Tids :
          (threads[t].pc = "loop" /\ threads'[t].pc = "ocr")
              => CalculateImageHash(threads'[t].image) # lastCap]_vars

\* C9: start_translation while translation_active, and start_monitoring while
\* is_monitoring, make no thread, leave the monitor's target and flag alone
\* and do not count a session.
C9_StartWhileRunningIsNoOp ==
    [][(\/ last'.op = "start_translation" /\ translation_active
        \/ last'.op = "start_monitoring" /\ is_monitoring)
       => /\ threads' = threads
          /\ monitor_thread' = monitor_thread
          /\ mon' = mon
          /\ is_monitoring' = is_monitoring
          /\ stats'.sessions_count = stats.sessions_count]_vars

\* start_monitoring for window W1 was rejected while a worker monitors the
\* full screen.
C9_Witness ==
    /\ last.op = "start_monitoring"
    /\ last.rejected
    /\ is_monitoring
    /\ mon.target_window = "None"
    /\ monitor_thread # 0
    /\ Alive(monitor_thread)

\* start_translation was rejected while a session runs.
C9_WitnessSession ==
    /\ last.op = "start_translation"
    /\ last.outcome = "already active"
    /\ translation_active
    /\ is_monitoring
    /\ stats.sessions_count > 0

\* C10: once stop_monitoring has returned, the only thread that may be alive
\* is the worker of a monitoring started since.
C10_StopIsSynchronous ==
    joining.tid = 0 =>
        \A t \in Tids : Alive(t) => (is_monitoring /\ t = monitor_thread)

\* The threads inside a recognition or translation callback.
InCallback == {t \in Tids : threads[t].pc \in {"ocr", "translate"}}

\* C11: at no time are two recognition or translation callbacks running, and
\* no thread is at its capture while another processes a frame: of the
\* threads made for _monitor_loop, at most one is alive.
C11_OneFrameInFlight ==
    /\ Cardinality(InCallback) <= 1
    /\ Cardinality({t \in Tids : Alive(t)}) <= 1

\* C12: a failure never ends the loop. A thread of _monitor_loop ends only
\* when is_monitoring is false (stop was called); after a failure the thread
\* is in the handler's sleep, and from that sleep its only step is back to
\* the while test and its next capture.
C12_FailureKeepsRunning ==
    [][\A t \in Tids :
          /\ (Alive(t) /\ threads'[t].pc = "done") => ~is_monitoring
          /\ threads[t].pc = "backoff" => threads'[t].pc \in {"backoff", "loop"}]_vars

\* A recognition callback has raised on an accepted frame, and the thread is
\* in the handler's sleep with the monitor still on.
C12_Witness ==
    \E t \in Tids :
        /\ threads[t].pc = "backoff"
        /\ threads[t].last_capture_time = "recent"
        /\ is_monitoring

\* C13: with no recognition engine or no translation engine, a call of
\* start_translation still leaves the session running (translation_active
\* and the monitor on), and no thread of the loop ends.
C13_DegradedSessionStillRuns ==
    /\ last.op = "start_translation" => (translation_active /\ is_monitoring)
    /\ \A t \in Tids : threads[t].pc # "done"

\* The rows of the store with this (chinese, english) pair.
PairRows(store, c, e) ==
    {i \in 1..Len(store) : store[i].chinese = c /\ store[i].english = e}

\* C14: add_term is an upsert on the pair (chinese, english). After a call
\* that found the store available, the store has exactly one row of the added pair, with the given category
\* and confidence; no pair has two rows; and every row of another pair, the
\* rows of the same chinese term with another english term among them, is
\* still there unchanged.
C14_AddTermIsUpsert ==
    [][(last'.op = "add_term" /\ last'.db = "ok") =>
          /\ Cardinality(PairRows(glossary', last'.chinese, last'.english)) = 1
          /\ \A i, j \in 1..Len(glossary') :
                (/\ glossary'[i].chinese = glossary'[j].chinese
                 /\ glossary'[i].english = glossary'[j].english) => i = j
          /\ \A i \in 1..Len(glossary) :
                ~(/\ glossary[i].chinese = last'.chinese
                  /\ glossary[i].english = last'.english)
                => \E j \in 1..Len(glossary') : glossary'[j] = glossary[i]]_vars

\* The built-in pair (qidong, Start) has been added again after
\* (qidong, Launch): the store has one row of each.
C14_Witness ==
    /\ last.op = "add_term" /\ last.db = "ok"
    /\ last.chinese = TxtStart /\ last.english = <<"Start">>
    /\ Len(glossary) = Len(DefaultTerms) + 1
    /\ Cardinality(PairRows(glossary, TxtStart, <<"Start">>)) = 1
    /\ Cardinality(PairRows(glossary, TxtStart, <<"Launch">>)) = 1
    /\ glossary[Len(glossary)].english = <<"Start">>

\* The row of a result tuple: the one row of the term with that english.
RowOf(rows, result) == rows[CHOOSE i \in 1..Len(rows) : rows[i].english = result[1]]

\* C15: with the store available, lookup(term) gives one
\* (english, category, confidence) tuple for each row whose chinese equals
\* term and nothing else, no row ranking above one that comes before it
\* (confidence descending, then usage_count descending); the list is empty
\* exactly when the store has no row of the term.
C15_LookupIsExactAndRanked ==
    [][(last'.op = "lookup" /\ last'.db = "ok") =>
          LET res == last'.results
              rows == Matching(glossary, last'.term)
          IN  /\ Len(res) = Len(rows)
              /\ \A i \in 1..Len(rows) : \E j \in 1..Len(res) :
                    res[j] = <<rows[i].english, rows[i].category, rows[i].confidence>>
              /\ \A j \in 1..Len(res) : \E i \in 1..Len(rows) :
                    res[j] = <<rows[i].english, rows[i].category, rows[i].confidence>>
              /\ \A j, k \in 1..Len(res) :
                    j < k => ~RanksAbove(RowOf(rows, res[k]), RowOf(rows, res[j]))
              /\ (res = <<>>) <=>
                    (\A i \in 1..Len(glossary) : glossary[i].chinese # last'.term)]_vars

\* A lookup of qidong has returned Launch (confidence 1.0) before Start
\* (confidence 0.9), although Start is the later row of the table.
C15_Witness ==
    /\ last.op = "lookup" /\ last.db = "ok" /\ last.term = TxtStart
    /\ Len(last.results) = 2
    /\ last.results[1][1] = <<"Launch">> /\ last.results[1][3] = 100
    /\ last.results[2][1] = <<"Start">> /\ last.results[2][3] = 90
    /\ glossary[Len(glossary)].english = <<"Start">>

\* C16: usage_count never decreases. For every (chinese, english) pair that
\* is in the store before and after a step (a lookup, an add_term, a seeding
\* or a translate), its usage_count after the step is at least its
\* usage_count before, and never negative.
C16_UsageCountMonotonic ==
    [][\A i \in 1..Len(glossary), j \in 1..Len(glossary') :
          (/\ glossary[i].chinese = glossary'[j].chinese
           /\ glossary[i].english = glossary'[j].english)
          => /\ glossary'[j].usage_count >= glossary[i].usage_count
             /\ glossary'[j].usage_count >= 0]_vars

\* C17: seeding is insert-if-absent. Constructing the glossary again on the
\* existing store leaves every row that was there as it was: the same
\* category, confidence and usage_count, the built-in pairs the user has
\* added again among them.
C17_SeedingKeepsExistingRows ==
    [][last'.op = "seed" =>
          \A i \in 1..Len(glossary) : \E j \in 1..Len(glossary') :
              glossary'[j] = glossary[i]]_vars

\* The store has been seeded again after the user added the built-in pair
\* (qidong, Start) with category custom and confidence 0.9 and looked it up:
\* the row still has them.
C17_Witness ==
    /\ last.op = "seed" /\ last.db = "ok"
    /\ \E i \in 1..Len(glossary) :
          glossary[i] = Row(TxtStart, <<"Start">>, "custom", 90, 1)

\* C18: a store that cannot be opened is contained. With the store
\* unavailable, lookup returns the empty list and leaves the store alone,
\* add_term returns having added nothing, neither raises, and translate
\* returns a TranslationResult for its text with no glossary match.
C18_StoreFailureContained ==
    [][(last'.op \in {"lookup", "add_term", "translate"} /\ last'.db = "unavailable") =>
          /\ ~last'.raised
          /\ glossary' = glossary
          /\ last'.op = "lookup" => last'.results = <<>>
          /\ last'.op = "translate" =>
                /\ last'.result.original_text = last'.text
                /\ last'.result.glossary_matches = <<>>
                /\ last'.result.confidence = TranslateConfidence(<<>>)]_vars

\* A lookup of qidong with the store unavailable has returned the empty
\* list, although the store has a row of qidong.
C18_Witness ==
    /\ last.op = "lookup" /\ last.db = "unavailable" /\ last.term = TxtStart
    /\ last.results = <<>>
    /\ Matching(glossary, TxtStart) # <<>>

\* An item with both keys, each with a text.
WellFormed(item) ==
    /\ item.type = "dict"
    /\ ItemGet(item, "chinese") # <<>>
    /\ ItemGet(item, "english") # <<>>

\* C19: an import skips the malformed items only. After load_custom_glossary
\* every well-formed item of the list has its row in the store, whatever
\* stands before or after it, and the store has no row that was not there
\* before and does not come from a well-formed item.
C19_ImportSkipsMalformedOnly ==
    [][last'.op = "load_custom_glossary" =>
          /\ \A i \in 1..Len(last'.data) :
                WellFormed(last'.data[i]) =>
                    HasPair(glossary', last'.data[i].chinese, last'.data[i].english)
          /\ \A j \in 1..Len(glossary') :
                \/ HasPair(glossary, glossary'[j].chinese, glossary'[j].english)
                \/ \E i \in 1..Len(last'.data) :
                      /\ WellFormed(last'.data[i])
                      /\ last'.data[i].chinese = glossary'[j].chinese
                      /\ last'.data[i].english = glossary'[j].english]_vars

\* C20: texts_detected and texts_translated never go down, and a session
\* that start_translation starts begins with both at zero.
C20_CountersResetAtSessionStart ==
    [][/\ stats'.texts_detected >= stats.texts_detected \/ stats'.texts_detected = 0
       /\ stats'.texts_translated >= stats.texts_translated \/ stats'.texts_translated = 0
       /\ (stats'.texts_detected < stats.texts_detected
             \/ stats'.texts_translated < stats.texts_translated)
          => (last'.op = "start_translation" /\ last'.outcome = "started")
       /\ (last'.op = "start_translation" /\ last'.outcome = "started")
          => (stats'.texts_detected = 0 /\ stats'.texts_translated = 0)]_vars

\* C21: the target of a running monitor is fixed. In a step that leaves
\* is_monitoring true (no stop, no restart), what the loop captures from
\* (the window, the first region or the full screen) stays the same.
C21_TargetFixedWhileRunning ==
    [][(is_monitoring /\ is_monitoring') => ActiveTarget' = ActiveTarget]_vars

\* C22: set then get is a round trip. After set(p, v), for any dotted key
\* path p, set has returned without raising and get(p) gives v; and get
\* never raises.
C22_ConfigSetGetRoundTrip ==
    [][/\ last'.op = "config_set" =>
            /\ ~last'.raised
            /\ ConfigGet(config', last'.key_path, ConfigStr("default"))
                   = ConfigStr(last'.value)
       /\ last'.op = "config_get" => ~last'.raised]_vars

\* C23: a stop never splits an iteration. The frame a thread holds for
\* recognition is the one whose fingerprint it stored in previous_hash; from
\* there the thread's next step is the recognition callback, and for a
\* non-empty result the translation callback after it; a thread ends only
\* from the while test, never between the fingerprint update and the
\* callbacks, whether or not stop_monitoring was called meanwhile.
C23_StopNeverSplitsIteration ==
    [][\A t \in Tids :
          /\ threads'[t].pc = "ocr" =>
                /\ threads'[t].image \in Frames
                /\ threads'[t].previous_hash = CalculateImageHash(threads'[t].image)
          /\ (threads[t].pc = "ocr" /\ threads'[t].pc # "ocr") =>
                /\ threads'[t].pc \in {"translate", "loop", "backoff"}
                /\ threads'[t].pc = "translate" <=> threads'[t].ocr_results # <<>>
                /\ stats'.texts_detected = stats.texts_detected + Len(threads'[t].ocr_results)
          /\ (threads[t].pc = "translate" /\ threads'[t].pc # "translate") =>
                threads'[t].pc \in {"loop", "backoff"}
          /\ (threads[t].pc # "done" /\ threads'[t].pc = "done") =>
                threads[t].pc = "loop"]_vars

\* stop_monitoring waits for a thread that holds a recognition result for the
\* translation callback.
C23_Witness ==
    \E t \in Tids :
        /\ joining.tid = t
        /\ ~is_monitoring
        /\ threads[t].pc = "translate"
        /\ threads[t].ocr_results # <<>>

\* C24: the frame of lookup. With the store available, a lookup that finds
\* rows adds one to the usage_count of each row whose chinese is the term
\* and changes nothing else: the same rows in the same places, with the same
\* chinese, english, category and confidence. A lookup that finds no row
\* leaves the store as it was.
C24_LookupFrame ==
    [][(last'.op = "lookup" /\ last'.db = "ok") =>
          /\ Len(glossary') = Len(glossary)
          /\ \A i \in 1..Len(glossary) :
                IF glossary[i].chinese = last'.term
                THEN glossary'[i] = [glossary[i] EXCEPT !.usage_count = @ + 1]
                ELSE glossary'[i] = glossary[i]
          /\ last'.results = <<>> => glossary' = glossary]_vars

\* A lookup of qidong has returned two entries, and both rows have been
\* counted once more.
C24_Witness ==
    /\ last.op = "lookup" /\ last.db = "ok" /\ last.term = TxtStart
    /\ Len(last.results) = 2
    /\ \A i \in 1..Len(glossary) :
          glossary[i].chinese = TxtStart => glossary[i].usage_count >= 1

\* C25: on a glossary hit (the store available and holding a row of the
\* text) translate gives confidence 0.95 and one glossary match naming the
\* english and the category of a top-ranked row of the text; on a miss the
\* result has no glossary match.
C25_HitConfidenceAndCategory ==
    [][last'.op = "translate" =>
          LET rows == Matching(glossary, last'.text)
              res == last'.result
          IN  IF rows # <<>> /\ last'.db = "ok"
              THEN /\ res.confidence = 95
                   /\ Len(res.glossary_matches) = 1
                   /\ \E i \in 1..Len(rows) :
                         /\ \A j \in 1..Len(rows) : ~RanksAbove(rows[j], rows[i])
                         /\ res.glossary_matches[1] =
                               <<last'.text, rows[i].english, rows[i].category>>
              ELSE res.glossary_matches = <<>>]_vars

\* translate(qidong) has hit the user's entry Launch of category custom,
\* which ranks above the built-in entry Start re-added with confidence 0.9.
C25_Witness ==
    /\ last.op = "translate" /\ last.db = "ok" /\ last.text = TxtStart
    /\ last.result.confidence = 95
    /\ last.result.glossary_matches = << <<TxtStart, <<"Launch">>, "custom">> >>
    /\ \E i \in 1..Len(glossary) :
          glossary[i].english = <<"Start">> /\ glossary[i].confidence = 90

\* C26: no retry across backends. A request goes to one backend, the primary
\* one or the one named in the call; when that backend fails, translate
\* gives back the text itself and detect_text the empty list, whatever
\* other backends are registered.
C26_NoRetryAcrossBackends ==
    /\ (last.op = "translate" /\ last.engine_called /\ last.be = "fail")
          => last.result.translated_text = last.text
    /\ (last.op = "detect_text" /\ last.raw = <<>>) => last.out.results = <<>>

\* Thread t hands a frame to recognition in this step.
Accepts(t) == threads[t].pc = "loop" /\ threads'[t].pc = "ocr"

\* C27: accepted frames of a session are at least the frame interval apart.
\* A thread accepts a frame only when the interval has passed since its own
\* last accepted capture and since the last accepted capture of
\* monitor_thread, the thread the running session started.
C27_AcceptedFramesOneIntervalApart ==
    [][\A t \in Tids :
          Accepts(t) =>
              /\ threads[t].last_capture_time = "past"
              /\ monitor_thread # 0 =>
                    threads[monitor_thread].last_capture_time = "past"]_vars

\* C28: the loop does not busy-spin. A thread that has just acquired a frame,
\* whatever came of it (accepted, discarded as unchanged, zero-sized), cannot
\* acquire the next one at once: its time gate is closed until the frame
\* interval has passed, so that it sleeps first, or it is no longer at the
\* capture (in a callback, or asleep in the handler).
C28_OneAcquisitionPerInterval ==
    last.op = "capture" =>
        \/ threads[last.tid].last_capture_time = "recent"
        \/ threads[last.tid].pc # "loop"

\* C29: a failed capture is a skipped tick. When the capture primitive fails
\* it returns the empty frame, and the iteration computes no fingerprint,
\* calls neither callback, changes neither the thread's previous_hash and
\* last_capture_time nor any counter or emission, and monitoring goes on.
C29_FailedCaptureIsSkippedTick ==
    [][(last'.op = "capture" /\ last'.outcome = "error") =>
          /\ threads' = threads
          /\ lastCap' = lastCap
          /\ stats' = stats
          /\ emitted' = emitted
          /\ glossary' = glossary
          /\ is_monitoring'
          /\ threads'[last'.tid].pc = "loop"]_vars

C29_Witness ==
    /\ last.op = "capture"
    /\ last.outcome = "error"
    /\ threads[last.tid].previous_hash = "h1"
    /\ threads[last.tid].pc = "loop"

\* C30: a hashing error is a transient failure. When the fingerprint of a
\* captured frame cannot be computed, the iteration does not go on to
\* recognition and the thread's previous_hash is unchanged.
C30_HashFailureIsTransient ==
    [][\A t \in Tids :
          (/\ last'.op = "capture"
           /\ last'.tid = t
           /\ last'.outcome = "ok"
           /\ last'.screen = UnhashableImage) =>
              /\ threads'[t].pc # "ocr"
              /\ threads'[t].previous_hash = threads[t].previous_hash]_vars

\* The regions of raw the noise filter is to keep, in order.
KeptOf(raw) ==
    SelectSeq(raw, LAMBDA r : r[2] >= MinTextSize /\ PyLen(Strip(r[1])) >= 2)

\* C31: the noise filter keeps a region iff its height is at least
\* min_text_size and its trimmed text is longer than one character; exactly
\* the kept regions, in order, are handed to translation, which is called
\* only when there is one; and texts_detected grows by their number, by
\* nothing when recognition fails.
C31_NoiseFilter ==
    [][last'.op = "ocr_frame" =>
          LET kept == IF last'.recognition = "raised" \/ ocr_primary = "None"
                      THEN <<>> ELSE KeptOf(last'.raw)
          IN  /\ Len(last'.passed) = Len(kept)
              /\ \A i \in 1..Len(kept) :
                    /\ last'.passed[i].text = Strip(kept[i][1])
                    /\ last'.passed[i].height = kept[i][2]
              /\ last'.translation_called <=> kept # <<>>
              /\ stats'.texts_detected = stats.texts_detected + Len(kept)]_vars

\* A frame with a region of height exactly min_text_size that is kept, next
\* to one dropped for its one-character text.
C31_Witness ==
    /\ last.op = "ocr_frame"
    /\ last.recognition = "ok"
    /\ last.raw = <<RawOneChar, RawStart>>
    /\ Len(last.passed) = 1
    /\ last.passed[1].height = MinTextSize
    /\ stats.texts_detected = 1

\* Recognition fails on a frame with a region worth keeping.
C31_WitnessFailure ==
    /\ last.op = "ocr_frame"
    /\ last.recognition = "raised"
    /\ last.raw = <<RawStart>>
    /\ stats.texts_detected = 1

\* C32: a failed translation is never shown. When the backend fails or there
\* is none, every pair the frame's emission holds comes from a glossary hit.
C32_FailedTranslationNeverShown ==
    (/\ last.op = "ocr_frame"
     /\ last.translation_called
     /\ (last.be = "fail" \/ tm_primary = "None")) =>
        \A i \in 1..Len(emitted.translations) :
            emitted.translations[i].glossary_matches # <<>>

\* C33: stop terminates the worker. Whenever is_monitoring is false and a
\* thread of _monitor_loop is alive, that thread eventually ends, unless
\* monitoring is started again first.
C33_StopTerminatesWorker ==
    \A t \in Tids :
        (~is_monitoring /\ Alive(t)) ~> (~Alive(t) \/ is_monitoring)

\* The flag is cleared while a thread is inside its recognition callback.
C33_Witness ==
    \E t \in Tids :
        /\ ~is_monitoring
        /\ threads[t].pc = "ocr"
        /\ joining.tid = t

\* The last step was a capture that failed, or one of a frame whose
\* fingerprint was the thread's previous_hash.
DiscardedCapture ==
    last.op = "capture" /\ (last.outcome = "error" \/ ~last.changed)

\* C34: changes are eventually processed. If from some point on monitoring
\* is never stopped, thread t is alive, and no capture is discarded (every
\* capture succeeds with a fingerprint different from previous_hash), then
\* again and again a frame is accepted and handed to the recognition callback.
C34_ChangesEventuallyProcessed ==
    \A t \in Tids :
        <>[](is_monitoring /\ Alive(t) /\ ~DiscardedCapture)
            => []<>(threads[t].pc = "ocr")

\* A thread of a running session waits at the closed time gate after an
\* accepted frame that changed on the screen.
C34_Witness ==
    \E t \in Tids :
        /\ is_monitoring
        /\ threads[t].pc = "loop"
        /\ threads[t].last_capture_time = "recent"
        /\ threads[t].previous_hash = "h2"

\* C35: the fingerprint state is scoped to one run of the loop. The first
\* non-empty frame captured after monitoring starts (lastCap is "None" until
\* then) is accepted and handed to recognition, whatever was accepted before
\* the preceding stop.
C35_FirstFrameAfterStartAccepted ==
    [][(lastCap = "None" /\ lastCap' # "None") => \E t \in Tids : Accepts(t)]_vars

\* C36: concurrent starts are safe. When the two calls of start_translation
\* made on the idle monitor have returned, one worker thread has been made
\* and sessions_count is 1.
C36_ConcurrentStartsMakeOneWorker ==
    (\A c \in Callers : callers[c].pc = "returned") =>
        /\ Cardinality({t \in Tids : threads[t].pc # "unborn"}) <= 1
        /\ stats.sessions_count = 1

\* C37: the session state the main window shows is the coordinator's. When
\* no call is in progress, MainWindow.is_translating equals
\* translation_active, which equals RealTimeMonitor.is_monitoring.
C37_UiMatchesCoordinator ==
    joining.tid = 0 =>
        /\ is_translating = translation_active
        /\ translation_active = is_monitoring

\* C38: the number of emitted pairs counted never exceeds the number of
\* filtered regions counted.
C38_TranslatedAtMostDetected ==
    stats.texts_translated <= stats.texts_detected

\* Settings the main window's dict does not mention.
UnmentionedPaths ==
    { <<"ocr", ".", "languages">>, <<"translation", ".", "target_lang">> }

\* C39: update_settings changes only the settings it is given. Every key
\* the new settings do not mention reads the same after the call as before.
C39_UpdateSettingsFrame ==
    [][last'.op = "update_settings" =>
          \A key_path \in UnmentionedPaths :
              ConfigGet(config', key_path, ConfigStr("default"))
                  = ConfigGet(config, key_path, ConfigStr("default"))]_vars

====
